---------------------------- MODULE Spec2Model ----------------------------
(***************************************************************************)
(* A model of the metric package: the rolling-window TimeSeries, the       *)
(* bounded-memory Histogram and the Collector event loop.                  *)
(*                                                                         *)
(* Times are integers (ticks since the zero time); values are the int64    *)
(* instantiation of ValueType.                                             *)
(***************************************************************************)
EXTENDS Integers, Sequences, FiniteSets, TLC

\* ------------------------------------------------------------------ bounds
MaxTime == 7
MaxSlots == 3
MaxCalls == 4
\* Histogram: the largest maxBins and sample tried, the number of samples a run
\* adds, and the quantiles asked for: q = k/QSteps, k = 0..QSteps
MaxBins == 3
MaxSample == 3
MaxTotal == 4
QSteps == 4

\* "if h.maxBins <= 0 { h.maxBins = 100 }"
DefaultMaxBins == 100
\* "h := NewHistogram(50)"
TestMaxBins == 50
\* Collector: the largest queue capacity tried, the ticks the ticker delivers
\* and the Send calls made in a run
MaxBuffer == 2
MaxTicks == 1
MaxSends == 1
\* Collector and Storage: the messages received in a run
MaxReceives == 2
MaxStarts == 2
\* "wg.Add(3)": the listener calls the round trip waits for
RoundTripTicks == 3

\* ticks in one second: time.RFC3339 prints whole seconds only
Second == 2

Intervals == {2, 3}
SampleValues == {0, 1}
Aggregators == {"nil", "SUM", "AVG", "LAST", "FIRST", "MIN", "MAX"}

VARIABLES
    \* TimeSeries[int64]
    data, interval, maxCount, aggregator, useRawTime,
    \* the call that produced the current state: its arguments, the series
    \* before it, and whether every call so far came with a non-decreasing time
    op, monotone,
    \* the last query: its name and argument, the series it found, the number
    \* of AddTime calls made before it, and what it returned
    held,
    \* MultiTimeSeries: its series, each with its own settings, and the call of
    \* AddTime in progress.  While the loop of that call is at a series, the
    \* TimeSeries variables above are that series.
    mts, mcall,
    \* Histogram; newMaxBins is the argument NewHistogram was given and hop the
    \* last call with its result
    bins, total, maxBins, newMaxBins, hop,
    \* the samples added since NewHistogram or the last Reset, in ascending
    \* order, and the holder of the Histogram's mutex ("free" when unlocked)
    samples, hmu,
    \* Collector
    inputs,        \* c.inputs: the registered inputs, in registration order
    timeseries,    \* c.timeseries: field name -> the AddTime calls it was given
    recvCh,        \* the inbound queue, oldest message first
    recvChSize,    \* its capacity
    recvChClosed,  \* close(c.recvCh) has run
    closeCh,       \* close(c.closeCh) has run
    storage,       \* what Storage holds: field name -> the series last stored
    now,           \* nowFunc()
    ownerPc,       \* the goroutine of Start: "none", "select", "drain", "done"
    stopPc,        \* Stop(): "idle", "wait", "closeRecv", "sync", "done"
    addInput,      \* AddInput(): the gathers it has still to pass to receive
    tickTasks,     \* go runInputs(ts): tick time -> [inputs, i], i inputs done
    nTicks,        \* ticks the ticker has delivered
    nSends,        \* Send calls made
    queued,        \* the messages accepted onto the queue so far
    mutators,      \* the tasks that have run receive
    panics,        \* the tasks that sent on the closed queue
    ingestLog,     \* the ids of the messages receive was given, in that order
    addCall,       \* the last AddInput call: its inputs, those that reported an
                   \* error, c.inputs before it, and the error it returned
    invoked,       \* tick time -> the inputs that tick had, those its task has
                   \* invoked and those that reported an error
    loops,         \* the owner loops of further Start() calls: [pc, m], m the
                   \* message the loop has taken off the queue
    \* Collector and Storage, as receive and syncStorage find them
    series,        \* c.series: the resolutions configured with WithSeries
    table,         \* c.timeseries: field name -> its MultiTimeSeries
    stored,        \* what Storage holds: <<field name, series name>> -> data
    loads,         \* the Load calls of the last receive
    stores,        \* the Store calls of the last syncStorage
    sop,           \* the last of these operations
    \* the Collector lock and the tasks that use the Collector's shared state
    mu,            \* the holder of the Collector's mutex, "free" when unlocked
    prog,          \* task -> the steps it has still to run, the current first
    lq,            \* the messages on the inbound queue
    \* Meter
    meter,         \* its fields: value, min, max, sum, count
    marks,         \* the values marked since construction or the last Reset
    \* the samples given to a TimeSeries whose time is in the bucket of the
    \* latest of them
    inBucket,
    \* the time source behind nowFunc(), and the times Add has read from it
    clock, readings

tsVars == <<data, interval, maxCount, aggregator, useRawTime, op, monotone, held,
            mts, mcall>>
hVars == <<bins, total, maxBins, newMaxBins, hop, samples, hmu>>
cVars == <<inputs, timeseries, recvCh, recvChSize, recvChClosed, closeCh, storage,
           now, ownerPc, stopPc, addInput, tickTasks, nTicks, nSends, queued,
           mutators, panics, ingestLog, addCall, invoked, loops>>
sVars == <<series, table, stored, loads, stores, sop>>
xVars == <<mu, prog, lq, meter, marks, inBucket, clock, readings>>
vars == <<tsVars, hVars, cVars, sVars, xVars>>

Range(f) == {f[k] : k \in DOMAIN f}

\* ============================================================ TimeSeries

TimePoint(t, v, c) == [Time |-> t, Value |-> v, Count |-> c]

\* time.Time.Truncate(d)
Truncate(t, d) == IF d <= 0 THEN t ELSE t - (t % d)

\* time.Time.Round(d): nearest multiple of d, halfway values round up
Round(t, d) ==
    IF d <= 0 THEN t
    ELSE LET r == t % d
         IN  IF r + r < d THEN t - r ELSE t + (d - r)

\* time.Time.Format(time.RFC3339): sub-second digits are not printed
FormatRFC3339(t) == t - (t % Second)

timeRound(t) == Truncate(t, interval)

roundTimeTruncating(t) ==
    IF useRawTime THEN t
    ELSE Truncate(t + (interval \div 2), interval)

roundTime(t) ==
    IF useRawTime THEN t
    ELSE Round(t + (interval \div 2), interval)

IntervalBetween(prev, later) == (timeRound(later) - timeRound(prev)) \div interval

\* ---- aggregators
SUM(l, r) ==
    TimePoint(IF l.Time > r.Time THEN l.Time ELSE r.Time,
              l.Value + r.Value, l.Count + r.Count)

AVG(l, r) ==
    LET ts == IF l.Time > r.Time THEN l.Time ELSE r.Time
        totalCount == l.Count + r.Count
    IN  IF totalCount = 0 THEN TimePoint(ts, 0, 0)
        ELSE TimePoint(ts, (l.Value * l.Count + r.Value * r.Count) \div totalCount,
                       totalCount)

LAST(l, r) == IF l.Time > r.Time THEN l ELSE r

FIRST(l, r) == IF l.Time < r.Time THEN l ELSE r

MIN(l, r) == IF l.Value < r.Value THEN l ELSE r

MAX(l, r) == IF l.Value > r.Value THEN l ELSE r

Aggregate(agg, l, r) ==
    CASE agg = "SUM"   -> SUM(l, r)
      [] agg = "AVG"   -> AVG(l, r)
      [] agg = "LAST"  -> LAST(l, r)
      [] agg = "FIRST" -> FIRST(l, r)
      [] agg = "MIN"   -> MIN(l, r)
      [] agg = "MAX"   -> MAX(l, r)

\* ---- addPoint
\* roll <= 0: the datum falls in the bucket of the last point (or before it)
sameBucketAppend(d, datum) == Append(d, datum)

sameBucket(d, datum) ==
    LET last == d[Len(d)]
    IN  [d EXCEPT ![Len(d)] = IF aggregator = "nil" THEN datum
                              ELSE Aggregate(aggregator, last, datum)]

\* roll >= maxCount: "Reset if the gap is too large"
tooFarNever(roll) == roll > maxCount

tooFar(roll) == roll >= maxCount

\* "Remove the oldest data if we exceed maxCount"
evictNewest(d) ==
    IF Len(d) >= maxCount THEN SubSeq(d, 1, maxCount - 1) ELSE d

evict(d) ==
    IF Len(d) >= maxCount THEN SubSeq(d, Len(d) - maxCount + 2, Len(d)) ELSE d

\* "Fill in the gaps with empty data points"
emptyPointEarly(last, i) == TimePoint(last.Time + i * interval, 0, 0)

emptyPoint(last, i) == TimePoint(last.Time + (i + 1) * interval, 0, 0)

\* one iteration of "for i := range roll"
rollStep(d, last, datum, roll, i) ==
    LET d1 == evict(d)
    IN  IF i = roll - 1
        THEN Append([d1 EXCEPT ![Len(d1)].Time = roundTime(@)], datum)
        ELSE Append(d1, emptyPoint(last, i))

RECURSIVE rollLoop(_, _, _, _, _)
rollLoop(d, last, datum, roll, i) ==
    IF i >= roll THEN d
    ELSE rollLoop(rollStep(d, last, datum, roll, i), last, datum, roll, i + 1)

addPoint(d, datum) ==
    IF Len(d) = 0 THEN <<datum>>
    ELSE LET last == d[Len(d)]
             roll == IntervalBetween(last.Time, datum.Time)
         IN  IF roll <= 0 THEN sameBucket(d, datum)
             ELSE IF tooFar(roll) THEN <<datum>>
             ELSE rollLoop(d, last, datum, roll, 0)

\* ---- queries: each returns a copy, the time of the final entry rounded
roundLast(times) ==
    [times EXCEPT ![Len(times)] = roundTime(@)]

Snapshot ==
    [Times    |-> [i \in 1..Len(data) |->
                      IF i = Len(data) THEN roundTime(data[i].Time) ELSE data[i].Time],
     Values   |-> [i \in 1..Len(data) |-> data[i].Value],
     Interval |-> interval,
     MaxCount |-> maxCount]

LastN(n) ==
    IF Len(data) = 0 \/ n <= 0 THEN [times |-> <<>>, values |-> <<>>]
    ELSE LET offset == IF Len(data) - n < 0 THEN 0 ELSE Len(data) - n
             sub == SubSeq(data, offset + 1, Len(data))
         IN  [times  |-> roundLast([i \in 1..Len(sub) |-> sub[i].Time]),
              values |-> [i \in 1..Len(sub) |-> sub[i].Value]]

Last ==
    LET r == LastN(1)
    IN  IF Len(r.times) = 0 THEN [time |-> 0, value |-> 0]
        ELSE [time |-> r.times[1], value |-> r.values[1]]

\* Values indexes times[len(times)-1]: it is defined on a non-empty series only
Values ==
    [times  |-> roundLast([i \in 1..Len(data) |-> data[i].Time]),
     values |-> [i \in 1..Len(data) |-> data[i].Value]]

\* String: the rendered array, one {ts[,value]} object per point
String ==
    [i \in 1..Len(data) |->
        LET t == IF i = Len(data) THEN FormatRFC3339(roundTime(data[i].Time))
                 ELSE FormatRFC3339(data[i].Time)
        IN  IF data[i].Count = 0 THEN [ts |-> t]
            ELSE [ts |-> t, value |-> data[i].Value]]

\* After(t): the points from the first one whose time is >= t - interval/2
After(t) ==
    LET tick == t - (interval \div 2)
        from == {i \in 1..Len(data) : data[i].Time >= tick}
    IN  IF from = {} THEN [times |-> <<>>, values |-> <<>>]
        ELSE LET idx == CHOOSE i \in from : \A j \in from : i <= j
                 sub == SubSeq(data, idx, Len(data))
             IN  [times  |-> roundLast([i \in 1..Len(sub) |-> sub[i].Time]),
                  values |-> [i \in 1..Len(sub) |-> sub[i].Value]]

\* ---- the TimeSeries state machine
NoMultiCall == [phase |-> "idle", t |-> 0, v |-> 0, i |-> 0, calls |-> 0,
                pre |-> <<>>, fed |-> <<>>]

NoQuery == [name |-> "none", arg |-> 0, pre |-> <<>>, at |-> 0, panic |-> FALSE,
            ret |-> <<>>]

NoOp == [name |-> "new", t |-> 0, v |-> 0, pre |-> <<>>, calls |-> 0]

TSInit ==
    /\ data = <<>>
    /\ interval \in Intervals
    /\ maxCount \in 1..MaxSlots
    /\ aggregator \in Aggregators
    /\ useRawTime \in BOOLEAN
    /\ op = NoOp
    /\ monotone = TRUE
    /\ held = NoQuery
    /\ mts = <<>>
    /\ mcall = NoMultiCall

\* AddTime(t, v).  The caller is to pass non-decreasing times; nothing in the
\* code enforces it, so any time is accepted.  A run is followed for MaxCalls
\* calls and up to the first call that breaks the contract.
AddTime(t, v) ==
    /\ op.calls < MaxCalls
    /\ monotone
    /\ data' = addPoint(data, TimePoint(t, v, 1))
    /\ op' = [name |-> "AddTime", t |-> t, v |-> v, pre |-> data,
              calls |-> op.calls + 1]
    /\ monotone' = (op.name = "new" \/ op.t <= t)
    /\ UNCHANGED <<interval, maxCount, aggregator, useRawTime, held, mts, mcall>>
    /\ UNCHANGED <<hVars, cVars, sVars, xVars>>

TSNext == \E t \in 0..MaxTime, v \in SampleValues : AddTime(t, v)

\* AddTime(t, v) by a caller that keeps to the contract: t is not before the
\* time of the call before.  inBucket lists the samples passed since the last
\* call whose time was in an earlier bucket.
AddTimeInOrder(t, v) ==
    /\ op.calls < MaxCalls
    /\ op.name = "new" \/ op.t <= t
    /\ data' = addPoint(data, TimePoint(t, v, 1))
    /\ op' = [name |-> "AddTime", t |-> t, v |-> v, pre |-> data,
              calls |-> op.calls + 1]
    /\ inBucket' = IF op.name # "new" /\ timeRound(t) = timeRound(op.t)
                   THEN Append(inBucket, v) ELSE <<v>>
    /\ UNCHANGED <<interval, maxCount, aggregator, useRawTime, monotone, held, mts, mcall>>
    /\ UNCHANGED <<mu, prog, lq, meter, marks, clock, readings>>
    /\ UNCHANGED <<hVars, cVars, sVars>>

TSInOrderNext == \E t \in 0..MaxTime, v \in SampleValues : AddTimeInOrder(t, v)

\* ---- the queries.  Each works under the lock on arrays it makes itself;
\* rounding the series in place is what none of them does.
queryRoundingInPlace(d) ==
    IF d = <<>> THEN d ELSE [d EXCEPT ![Len(d)].Time = roundTime(@)]

\* ts.data as a query leaves it: no query assigns to ts.data or to an element
afterQuery(d) == d

\* A run is queried once it has been fed MaxCalls - 1 times, and at most once
\* between two calls of AddTime.
returned(name, arg, panic, ret) ==
    /\ op.calls >= MaxCalls - 1
    /\ held.name = "none" \/ held.at < op.calls
    /\ held' = [name |-> name, arg |-> arg, pre |-> data, at |-> op.calls,
                panic |-> panic, ret |-> ret]
    /\ data' = afterQuery(data)
    /\ UNCHANGED <<interval, maxCount, aggregator, useRawTime, op, monotone, mts,
                   mcall>>
    /\ UNCHANGED <<hVars, cVars, sVars, xVars>>

CallLast == returned("Last", 0, FALSE, Last)

CallLastN(n) == returned("LastN", n, FALSE, LastN(n))

CallAfter(t) == returned("After", t, FALSE, After(t))

\* "times[len(times)-1]" of an empty series is an index out of range
CallValues ==
    IF data = <<>> THEN returned("Values", 0, TRUE, <<>>)
    ELSE returned("Values", 0, FALSE, Values)

CallSnapshot == returned("Snapshot", 0, FALSE, Snapshot)

CallString == returned("String", 0, FALSE, String)

\* a series that is fed and queried; the values do not matter to a query
TSQueryNext ==
    \/ \E t \in 0..MaxTime : AddTime(t, 1)
    \/ CallLast
    \/ \E n \in 0..(MaxSlots + 1) : CallLastN(n)
    \/ \E t \in 0..(MaxTime + 3) : CallAfter(t)
    \/ CallValues
    \/ CallSnapshot
    \/ CallString

\* a query of a series at any time, before its first AddTime included
queried(name, arg, panic, ret) ==
    /\ held' = [name |-> name, arg |-> arg, pre |-> data, at |-> op.calls,
                panic |-> panic, ret |-> ret]
    /\ data' = afterQuery(data)
    /\ UNCHANGED <<interval, maxCount, aggregator, useRawTime, op, monotone, mts,
                   mcall>>
    /\ UNCHANGED <<hVars, cVars, sVars, xVars>>

QueryLast == queried("Last", 0, FALSE, Last)

QueryLastN(n) == queried("LastN", n, FALSE, LastN(n))

QueryAfter(t) == queried("After", t, FALSE, After(t))

\* "times[len(times)-1]" of an empty series is an index out of range
QueryValues ==
    IF data = <<>> THEN queried("Values", 0, TRUE, <<>>)
    ELSE queried("Values", 0, FALSE, Values)

QuerySnapshot == queried("Snapshot", 0, FALSE, Snapshot)

QueryString == queried("String", 0, FALSE, String)

\* a series that is queried as NewTimeSeries returned it
TSNewQueryNext ==
    \/ QueryLast
    \/ \E n \in 0..(MaxSlots + 1) : QueryLastN(n)
    \/ \E t \in 0..(MaxTime + 3) : QueryAfter(t)
    \/ QueryValues
    \/ QuerySnapshot
    \/ QueryString

\* ---- MultiTimeSeries
\* the series a MultiTimeSeries is made of
Resolutions ==
    [interval : Intervals, maxCount : {1, MaxSlots}, aggregator : {"LAST", "SUM"},
     data : {<<>>}]

\* "for _, ts := range mts": the series after the i-th
rangeNextSkipping(i) == i + 2

rangeNext(i) == i + 1

\* a MultiTimeSeries of two NewTimeSeries
MInit ==
    /\ mts \in [1..2 -> Resolutions]
    /\ mcall = NoMultiCall
    /\ data = <<>>
    /\ interval = mts[1].interval
    /\ maxCount = mts[1].maxCount
    /\ aggregator = mts[1].aggregator
    /\ useRawTime = FALSE
    /\ op = NoOp
    /\ monotone = TRUE
    /\ held = NoQuery

\* MultiTimeSeries.AddTime(t, v) is called.  Times do not decrease from one
\* call to the next.
MultiAddTime(t, v) ==
    /\ mcall.phase \in {"idle", "done"}
    /\ mcall.calls < MaxCalls
    /\ mcall.t <= t
    /\ mcall' = [phase |-> "range", t |-> t, v |-> v, i |-> 0,
                 calls |-> mcall.calls + 1, pre |-> mts, fed |-> <<>>]
    /\ UNCHANGED <<mts, data, interval, maxCount, aggregator, useRawTime, op,
                   monotone, held>>
    /\ UNCHANGED <<hVars, cVars, sVars, xVars>>

\* the loop takes its next series, or ends
MultiRange ==
    /\ mcall.phase = "range"
    /\ LET i == rangeNext(mcall.i)
       IN  IF i > Len(mts)
           THEN /\ mcall' = [mcall EXCEPT !.phase = "done"]
                /\ UNCHANGED <<data, interval, maxCount, aggregator>>
           ELSE /\ mcall' = [mcall EXCEPT !.phase = "call", !.i = i]
                /\ data' = mts[i].data
                /\ interval' = mts[i].interval
                /\ maxCount' = mts[i].maxCount
                /\ aggregator' = mts[i].aggregator
    /\ UNCHANGED <<mts, useRawTime, op, monotone, held>>
    /\ UNCHANGED <<hVars, cVars, sVars, xVars>>

\* "ts.AddTime(t, v)" on the series the loop is at
MultiCall ==
    /\ mcall.phase = "call"
    /\ data' = addPoint(data, TimePoint(mcall.t, mcall.v, 1))
    /\ mts' = [mts EXCEPT ![mcall.i].data = data']
    /\ mcall' = [mcall EXCEPT !.phase = "range", !.fed = Append(@, data')]
    /\ UNCHANGED <<interval, maxCount, aggregator, useRawTime, op, monotone, held>>
    /\ UNCHANGED <<hVars, cVars, sVars, xVars>>

MNext ==
    \/ \E t \in 0..MaxTime : MultiAddTime(t, 1)
    \/ MultiRange
    \/ MultiCall

\* MultiTimeSeries.Add(v) is called
MultiAdd(v) ==
    /\ mcall.phase \in {"idle", "done", "added"}
    /\ mcall.calls < MaxCalls
    /\ mcall' = [phase |-> "rangeAdd", t |-> clock, v |-> v, i |-> 0,
                 calls |-> mcall.calls + 1, pre |-> mts, fed |-> <<>>]
    /\ readings' = <<>>
    /\ UNCHANGED <<mts, data, interval, maxCount, aggregator, useRawTime, op,
                   monotone, held>>
    /\ UNCHANGED <<mu, prog, lq, meter, marks, inBucket, clock>>
    /\ UNCHANGED <<hVars, cVars, sVars>>

\* the loop of Add takes its next series, or ends
MultiAddRange ==
    /\ mcall.phase = "rangeAdd"
    /\ LET i == rangeNext(mcall.i)
       IN  IF i > Len(mts)
           THEN /\ mcall' = [mcall EXCEPT !.phase = "added"]
                /\ UNCHANGED <<data, interval, maxCount, aggregator>>
           ELSE /\ mcall' = [mcall EXCEPT !.phase = "callAdd", !.i = i]
                /\ data' = mts[i].data
                /\ interval' = mts[i].interval
                /\ maxCount' = mts[i].maxCount
                /\ aggregator' = mts[i].aggregator
    /\ UNCHANGED <<mts, useRawTime, op, monotone, held>>
    /\ UNCHANGED <<hVars, cVars, sVars, xVars>>

\* "ts.Add(v)" on the series the loop is at: the series reads nowFunc() for
\* the time of the point; the time source may have moved on by the next reading
MultiAddCall(passed) ==
    /\ mcall.phase = "callAdd"
    /\ clock + passed <= MaxTime
    /\ data' = addPoint(data, TimePoint(clock, mcall.v, 1))
    /\ mts' = [mts EXCEPT ![mcall.i].data = data']
    /\ mcall' = [mcall EXCEPT !.phase = "rangeAdd", !.fed = Append(@, data')]
    /\ readings' = Append(readings, clock)
    /\ clock' = clock + passed
    /\ UNCHANGED <<interval, maxCount, aggregator, useRawTime, op, monotone, held>>
    /\ UNCHANGED <<mu, prog, lq, meter, marks, inBucket>>
    /\ UNCHANGED <<hVars, cVars, sVars>>

MAddNext ==
    \/ MultiAdd(1)
    \/ MultiAddRange
    \/ \E passed \in 0..1 : MultiAddCall(passed)

\* a series nobody uses
TSIdle ==
    /\ data = <<>>
    /\ interval = 2
    /\ maxCount = 1
    /\ aggregator = "nil"
    /\ useRawTime = FALSE
    /\ op = NoOp
    /\ monotone = TRUE
    /\ held = NoQuery
    /\ mts = <<>>
    /\ mcall = NoMultiCall

\* ============================================================= Histogram
\* float64 values are modelled as exact fractions n/d, d > 0, in lowest terms
RECURSIVE GCD(_, _)
GCD(a, b) == IF b = 0 THEN a ELSE GCD(b, a % b)

Abs(x) == IF x < 0 THEN -x ELSE x

Frac(n, d) == LET g == GCD(Abs(n), d) IN [n |-> n \div g, d |-> d \div g]

FracOf(i) == [n |-> i, d |-> 1]

FracSub(a, b) == Frac(a.n * b.d - b.n * a.d, a.d * b.d)

FracLess(a, b) == a.n * b.d < b.n * a.d

Bin(value, count) == [value |-> value, count |-> count]

\* Add, before the deferred trim: the new unit bin goes before the first bin
\* whose value exceeds it, or at the end
insertBinAtEnd(bs, value) == Append(bs, Bin(value, 1))

insertBin(bs, value) ==
    LET newBin == Bin(value, 1)
        above == {i \in 1..Len(bs) : FracLess(value, bs[i].value)}
    IN  IF above = {} THEN Append(bs, newBin)
        ELSE LET i == CHOOSE k \in above : \A m \in above : k <= m
             IN  SubSeq(bs, 1, i - 1) \o <<newBin>> \o SubSeq(bs, i, Len(bs))

\* the scan "for j := 1; j < len(h.bins); j++": the index i (of the right bin
\* of the pair, counted from 0) it ends with, having seen the pairs up to j
RECURSIVE scanPairsLast(_, _, _, _)
scanPairsLast(bs, j, d, i) ==
    IF j >= Len(bs) THEN i
    ELSE LET dv == FracSub(bs[j + 1].value, bs[j].value)
         IN  IF ~FracLess(d, dv) \/ j = 1
             THEN scanPairsLast(bs, j + 1, dv, j)
             ELSE scanPairsLast(bs, j + 1, d, i)

RECURSIVE scanPairs(_, _, _, _)
scanPairs(bs, j, d, i) ==
    IF j >= Len(bs) THEN i
    ELSE LET dv == FracSub(bs[j + 1].value, bs[j].value)
         IN  IF FracLess(dv, d) \/ j = 1
             THEN scanPairs(bs, j + 1, dv, j)
             ELSE scanPairs(bs, j + 1, d, i)

\* the bin that replaces bins[i-1] and bins[i]
mergedBinLosingCount(l, r) == Bin(l.value, l.count)

\* a merged bin half way between the two
mergedBinMidway(l, r) ==
    Bin(Frac(r.value.n * l.value.d + l.value.n * r.value.d, 2 * r.value.d * l.value.d),
        r.count + l.count)

mergedBin(l, r) ==
    LET count == r.count + l.count
    IN  Bin(Frac(r.value.n * r.count * l.value.d + l.value.n * l.count * r.value.d,
                 r.value.d * l.value.d * count),
            count)

\* one pass of the body of "for len(h.bins) > h.maxBins"
mergeOnce(bs) ==
    LET i == scanPairs(bs, 1, FracOf(0), 0)
    IN  SubSeq(bs, 1, i - 1) \o <<mergedBin(bs[i], bs[i + 1])>>
            \o SubSeq(bs, i + 2, Len(bs))

\* the budget trim works with: maxBins <= 0 becomes 100
trimBudget(mb) == IF mb <= 0 THEN DefaultMaxBins ELSE mb

trimNothing(bs, mb) == bs

RECURSIVE trim(_, _)
trim(bs, mb) ==
    IF Len(bs) > mb THEN trim(mergeOnce(bs), mb) ELSE bs

\* bin(q) for q = k/QSteps: count := q*total, less each bin's count in turn,
\* until it is <= 0 (both sides are scaled by QSteps here)
RECURSIVE binScanStrict(_, _, _)
binScanStrict(bs, i, count) ==
    IF i > Len(bs) THEN Bin(FracOf(0), 0)
    ELSE IF count - bs[i].count * QSteps < 0 THEN bs[i]
    ELSE binScanStrict(bs, i + 1, count - bs[i].count * QSteps)

RECURSIVE binScan(_, _, _)
binScan(bs, i, count) ==
    IF i > Len(bs) THEN Bin(FracOf(0), 0)
    ELSE IF count - bs[i].count * QSteps <= 0 THEN bs[i]
    ELSE binScan(bs, i + 1, count - bs[i].count * QSteps)

binFromTop(k) == binScan(bins, 1, (QSteps - k) * total)

bin(k) == binScan(bins, 1, k * total)

Quantile(k) == bin(k).value

NoCall == [name |-> "new", arg |-> 0, result |-> FracOf(0)]

HInit ==
    /\ newMaxBins \in -1..MaxBins
    /\ maxBins = newMaxBins
    /\ bins = <<>>
    /\ total = 0
    /\ hop = NoCall
    /\ samples = <<>>
    /\ hmu = "free"

\* the sorted samples with one more
insertSample(ss, value) ==
    LET above == {i \in 1..Len(ss) : value < ss[i]}
    IN  IF above = {} THEN Append(ss, value)
        ELSE LET i == CHOOSE k \in above : \A m \in above : k <= m
             IN  SubSeq(ss, 1, i - 1) \o <<value>> \o SubSeq(ss, i, Len(ss))

\* "h.Lock()" returns once nobody holds the mutex
Lock == hmu = "free"

\* Add(value), from Lock to the deferred trim and Unlock
histogramAdd(value) ==
    /\ Lock
    /\ total' = total + 1
    /\ maxBins' = trimBudget(maxBins)
    /\ bins' = trim(insertBin(bins, FracOf(value)), trimBudget(maxBins))
    /\ hop' = [name |-> "Add", arg |-> value, result |-> FracOf(0)]
    /\ samples' = insertSample(samples, value)
    /\ UNCHANGED <<newMaxBins, hmu>>
    /\ UNCHANGED <<tsVars, cVars, sVars, xVars>>

\* Add(value), the deferred trim included.  A run adds MaxTotal samples; a
\* histogram on the default budget goes on with the sample 1 until it has
\* been given one sample more than the default budget.
HAdd(value) ==
    /\ \/ total < MaxTotal
       \/ /\ maxBins = DefaultMaxBins
          /\ value = 1
          /\ total <= DefaultMaxBins
    /\ histogramAdd(value)

\* Add(value) in a run of MaxTotal samples
HAddFew(value) ==
    /\ total < MaxTotal
    /\ histogramAdd(value)

HReset ==
    /\ Lock
    /\ bins' = <<>>
    /\ total' = 0
    /\ hop' = [name |-> "Reset", arg |-> 0, result |-> FracOf(0)]
    /\ samples' = <<>>
    /\ UNCHANGED <<maxBins, newMaxBins, hmu>>
    /\ UNCHANGED <<tsVars, cVars, sVars, xVars>>

HQuantile(k) ==
    /\ Lock
    /\ hop' = [name |-> "Quantile", arg |-> k, result |-> Quantile(k)]
    /\ UNCHANGED <<bins, total, maxBins, newMaxBins, samples, hmu>>
    /\ UNCHANGED <<tsVars, cVars, sVars, xVars>>

\* ---- Quantiles(qs...), q = k/QSteps for each k of qs
\* "if found == len(qs) { break }"
anyFound(st, n) == \E idx \in 1..Len(st) : st[idx].found

allFound(st, n) == Cardinality({idx \in 1..Len(st) : st[idx].found}) = n

\* the inner loop over counts, at bin i: a counter not yet marked found (NaN)
\* is reduced by the bin's count and, once <= 0, gives that bin's value
quantilesAtBin(st, b) ==
    [idx \in 1..Len(st) |->
        IF st[idx].found THEN st[idx]
        ELSE LET c == st[idx].count - b.count * QSteps
             IN  IF c <= 0 THEN [count |-> c, found |-> TRUE, ret |-> b.value]
                 ELSE [count |-> c, found |-> FALSE, ret |-> st[idx].ret]] \o <<>>

RECURSIVE quantilesScan(_, _, _)
quantilesScan(bs, i, st) ==
    IF i > Len(bs) THEN st
    ELSE LET st1 == quantilesAtBin(st, bs[i])
         IN  IF allFound(st1, Len(st1)) THEN st1
             ELSE quantilesScan(bs, i + 1, st1)

Quantiles(qs) ==
    LET counts == [idx \in 1..Len(qs) |->
                      [count |-> qs[idx] * total, found |-> FALSE, ret |-> FracOf(0)]] \o <<>>
        final == quantilesScan(bins, 1, counts)
    IN  [idx \in 1..Len(qs) |-> final[idx].ret]

\* the argument lists tried: up to two quantiles, in any order, repeated or
\* above 1
QuantileLists == UNION {[1..n -> 0..(QSteps + 1)] : n \in 0..2}

HQuantiles(qs) ==
    /\ Lock
    /\ hop' = [name |-> "Quantiles", arg |-> qs, result |-> Quantiles(qs)]
    /\ UNCHANGED <<bins, total, maxBins, newMaxBins, samples, hmu>>
    /\ UNCHANGED <<tsVars, cVars, sVars, xVars>>

\* ---- the samples 1, 2, 3, ... in this order, twice as many as maxBins
HAscendingInit ==
    /\ newMaxBins \in (1..MaxBins) \cup {TestMaxBins}
    /\ maxBins = newMaxBins
    /\ bins = <<>>
    /\ total = 0
    /\ hop = NoCall
    /\ samples = <<>>
    /\ hmu = "free"

HAddAscending ==
    /\ total < 2 * newMaxBins
    /\ histogramAdd(total + 1)

HAscendingNext ==
    \/ HAddAscending
    \/ \E k \in 0..QSteps : HQuantile(k)

\* ---- String(): "h.Lock()", then "h.Quantiles(0.5, 0.90, 0.99)", whose own
\* "h.Lock()" waits for the mutex String holds: this call goes no further
HString ==
    /\ Lock
    /\ hmu' = "String"
    /\ hop' = [name |-> "String", arg |-> 0, result |-> FracOf(0)]
    /\ UNCHANGED <<bins, total, maxBins, newMaxBins, samples>>
    /\ UNCHANGED <<tsVars, cVars, sVars, xVars>>

\* every public operation of a histogram, on runs of MaxTotal samples
HOperationsNext ==
    \/ \E value \in 1..MaxSample : HAddFew(value)
    \/ HReset
    \/ \E k \in 0..QSteps : HQuantile(k)
    \/ \E qs \in QuantileLists : HQuantiles(qs)
    \/ HString

\* a histogram that is fed and reset only
HAddsNext ==
    \/ \E value \in 1..MaxSample : HAddFew(value)
    \/ HReset

HNext ==
    \/ \E value \in 1..MaxSample : HAdd(value)
    \/ HReset
    \/ \E k \in 0..QSteps : HQuantile(k)

\* a histogram nobody uses
HIdle ==
    /\ newMaxBins = 0
    /\ maxBins = 0
    /\ bins = <<>>
    /\ total = 0
    /\ hop = NoCall
    /\ samples = <<>>
    /\ hmu = "free"



\* ============================================================= Collector
\* The inputs that may be registered; each gathers one field, named after it.
InputNames == {"cpu"}

\* the fields external callers send
SendFields == {"cpu", "ext"}

\* a *Gather; id tells the messages apart: <<who made it, its timestamp, its
\* number there>>
Gather(id, ts, noop, fields) == [id |-> id, ts |-> ts, noop |-> noop, fields |-> fields]

\* receive(m), under the Collector lock: a marker (noop) adds NaN to every series
\* of the routing table; any other message creates the series of a field first
\* seen (Load finds nothing stored in a new Storage) and adds its value
RECURSIVE routeFields(_, _, _)
routeFields(tbl, m, k) ==
    IF k > Len(m.fields) THEN tbl
    ELSE LET name == m.fields[k]
             fm == IF name \in DOMAIN tbl THEN tbl[name] ELSE <<>>
             added == Append(fm, [id |-> m.id, ts |-> m.ts, nan |-> FALSE])
         IN  routeFields([n \in (DOMAIN tbl) \cup {name} |->
                              IF n = name THEN added ELSE tbl[n]], m, k + 1)

receive(tbl, m) ==
    IF m.noop
    THEN [n \in DOMAIN tbl |-> Append(tbl[n], [id |-> m.id, ts |-> m.ts, nan |-> TRUE])]
    ELSE routeFields(tbl, m, 1)

\* "c.recvCh <- g" by a task: a send on a closed channel panics, a send on a
\* full one waits
canSend == recvChClosed \/ Len(recvCh) < recvChSize

\* the same step of a task that ingests in place instead of queueing
chanSendIngesting(task, m) ==
    /\ timeseries' = receive(timeseries, m)
    /\ mutators' = mutators \cup {task}
    /\ queued' = queued \cup {m}
    /\ ingestLog' = Append(ingestLog, m.id)
    /\ UNCHANGED <<recvCh, panics>>

\* the same step putting the message at the head of the queue
chanSendFront(task, m) ==
    /\ canSend
    /\ IF recvChClosed
       THEN /\ panics' = panics \cup {task}
            /\ UNCHANGED <<recvCh, queued>>
       ELSE /\ recvCh' = <<m>> \o recvCh
            /\ queued' = queued \cup {m}
            /\ UNCHANGED panics
    /\ UNCHANGED <<timeseries, mutators, ingestLog>>

chanSend(task, m) ==
    /\ canSend
    /\ IF recvChClosed
       THEN /\ panics' = panics \cup {task}
            /\ UNCHANGED <<recvCh, queued>>
       ELSE /\ recvCh' = Append(recvCh, m)
            /\ queued' = queued \cup {m}
            /\ UNCHANGED panics
    /\ UNCHANGED <<timeseries, mutators, ingestLog>>

\* no AddInput call yet
NoAddCall == [ins |-> <<>>, failing |-> {}, before |-> <<>>, err |-> <<>>]

\* NewCollector with WithInputBuffer(MaxBuffer) and a Storage
CInit ==
    /\ inputs = <<>>
    /\ timeseries = <<>>
    /\ recvCh = <<>>
    /\ recvChSize = MaxBuffer
    /\ recvChClosed = FALSE
    /\ closeCh = FALSE
    /\ storage = <<>>
    /\ now = 1
    /\ ownerPc = "none"
    /\ stopPc = "idle"
    /\ addInput = <<>>
    /\ tickTasks = <<>>
    /\ nTicks = 0
    /\ nSends = 0
    /\ queued = {}
    /\ mutators = {}
    /\ panics = {}
    /\ ingestLog = <<>>
    /\ addCall = NoAddCall
    /\ invoked = <<>>
    /\ loops = <<>>

\* a loop over the inputs that ends at the first error
registeredUntilError(ins, failing) ==
    LET bad == {k \in 1..Len(ins) : ins[k] \in failing}
    IN  IF bad = {} THEN ins
        ELSE SubSeq(ins, 1, (CHOOSE k \in bad : \A j \in bad : k <= j) - 1)

\* the loop of AddInput over its inputs: one whose Init or first Gather
\* reports an error is skipped ("continue"), the others are appended
registered(ins, failing) == SelectSeq(ins, LAMBDA input : input \notin failing)

\* AddInput(inputs...), up to the deferred function: each input is invoked
\* once; one that reports an error is not registered, its error is among those
\* returned; the gather of any other is kept for receive and the input is
\* appended to c.inputs
addInputs(ins, failing) ==
    /\ stopPc = "idle"
    /\ addInput = <<>>
    /\ \A k \in 1..Len(ins) :
          /\ \A j \in 1..Len(inputs) : inputs[j] # ins[k]
          /\ \A j \in 1..Len(ins) : j # k => ins[j] # ins[k]
    /\ LET ok == registered(ins, failing)
       IN  /\ inputs' = inputs \o ok
           /\ addInput' = [k \in 1..Len(ok) |->
                              Gather(<<"AddInput", now, Len(inputs) + k>>, now, FALSE,
                                     <<ok[k]>>)]
    /\ addCall' = [ins |-> ins, failing |-> failing, before |-> inputs,
                   err |-> SelectSeq(ins, LAMBDA input : input \in failing)]
    /\ UNCHANGED <<timeseries, recvCh, recvChSize, recvChClosed, closeCh, storage, now,
                   ownerPc, stopPc, tickTasks, nTicks, nSends, queued, mutators,
                   panics, ingestLog>>
    /\ UNCHANGED <<invoked, loops>>
    /\ UNCHANGED <<tsVars, hVars, sVars, xVars>>

\* AddInput(input)
AddInput(input, fails) == addInputs(<<input>>, IF fails THEN {input} ELSE {})

\* the deferred function of AddInput: "c.receive(g)" in the caller's goroutine
AddInputReceive ==
    /\ addInput # <<>>
    /\ timeseries' = receive(timeseries, Head(addInput))
    /\ addInput' = Tail(addInput)
    /\ mutators' = mutators \cup {"AddInput"}
    /\ ingestLog' = Append(ingestLog, Head(addInput).id)
    /\ UNCHANGED <<inputs, recvCh, recvChSize, recvChClosed, closeCh, storage, now,
                   ownerPc, stopPc, tickTasks, nTicks, nSends, queued, panics>>
    /\ UNCHANGED <<addCall, invoked, loops>>
    /\ UNCHANGED <<tsVars, hVars, sVars, xVars>>

\* Start(): the owner goroutine begins its select loop
Start ==
    /\ ownerPc = "none"
    /\ ownerPc' = "select"
    /\ UNCHANGED <<inputs, timeseries, recvCh, recvChSize, recvChClosed, closeCh,
                   storage, now, stopPc, addInput, tickTasks, nTicks, nSends, queued,
                   mutators, panics, ingestLog>>
    /\ UNCHANGED <<addCall, invoked, loops>>
    /\ UNCHANGED <<tsVars, hVars, sVars, xVars>>

\* "case ts := <-ticker.C: go c.runInputs(ts)": the new task ranges over the
\* c.inputs of this moment
ownerTick ==
    /\ ownerPc = "select"
    /\ nTicks' = nTicks + 1
    /\ now' = now + 1
    /\ tickTasks' = [t \in (DOMAIN tickTasks) \cup {now + 1} |->
                        IF t = now + 1 THEN [inputs |-> inputs, i |-> 0]
                        ELSE tickTasks[t]]
    /\ UNCHANGED <<inputs, timeseries, recvCh, recvChSize, recvChClosed, closeCh,
                   storage, ownerPc, stopPc, addInput, nSends, queued, mutators,
                   panics, ingestLog>>
    /\ invoked' = [t \in (DOMAIN invoked) \cup {now + 1} |->
                      IF t = now + 1
                      THEN [n |-> Len(inputs), called |-> {}, failed |-> {}]
                      ELSE invoked[t]]
    /\ UNCHANGED <<addCall, loops>>
    /\ UNCHANGED <<tsVars, hVars, sVars, xVars>>

OwnerTick ==
    /\ nTicks < MaxTicks
    /\ ownerTick

\* "case m := <-c.recvCh: c.receive(m)"
OwnerReceive ==
    /\ ownerPc = "select"
    /\ recvCh # <<>>
    /\ recvCh' = Tail(recvCh)
    /\ timeseries' = receive(timeseries, Head(recvCh))
    /\ mutators' = mutators \cup {"owner"}
    /\ ingestLog' = Append(ingestLog, Head(recvCh).id)
    /\ UNCHANGED <<inputs, recvChSize, recvChClosed, closeCh, storage, now, ownerPc,
                   stopPc, addInput, tickTasks, nTicks, nSends, queued, panics>>
    /\ UNCHANGED <<addCall, invoked, loops>>
    /\ UNCHANGED <<tsVars, hVars, sVars, xVars>>

\* "case <-c.closeCh: ticker.Stop()"
OwnerClose ==
    /\ ownerPc = "select"
    /\ closeCh
    /\ ownerPc' = "drain"
    /\ UNCHANGED <<inputs, timeseries, recvCh, recvChSize, recvChClosed, closeCh,
                   storage, now, stopPc, addInput, tickTasks, nTicks, nSends, queued,
                   mutators, panics, ingestLog>>
    /\ UNCHANGED <<addCall, invoked, loops>>
    /\ UNCHANGED <<tsVars, hVars, sVars, xVars>>

\* the drain loop: receive what is queued; "default: return" on an empty queue
OwnerDrain ==
    /\ ownerPc = "drain"
    /\ IF recvCh # <<>>
       THEN /\ recvCh' = Tail(recvCh)
            /\ timeseries' = receive(timeseries, Head(recvCh))
            /\ mutators' = mutators \cup {"owner"}
            /\ ingestLog' = Append(ingestLog, Head(recvCh).id)
            /\ UNCHANGED ownerPc
       ELSE /\ ownerPc' = "done"
            /\ UNCHANGED <<recvCh, timeseries, mutators, ingestLog>>
    /\ UNCHANGED <<inputs, recvChSize, recvChClosed, closeCh, storage, now, stopPc,
                   addInput, tickTasks, nTicks, nSends, queued, panics>>
    /\ UNCHANGED <<addCall, invoked, loops>>
    /\ UNCHANGED <<tsVars, hVars, sVars, xVars>>

\* one turn of the loop of runInputs(ts): the next input is invoked and, unless
\* it reports an error, its gather is stamped ts and sent; after the last input
\* the marker is sent and the task ends
\* a tick task that sends its marker first
taskMessageMarkerFirst(task, ts) ==
    IF task.i = 0
    THEN Gather(<<"runInputs", ts, 0>>, ts, TRUE, <<>>)
    ELSE Gather(<<"runInputs", ts, task.i>>, ts, FALSE, <<task.inputs[task.i]>>)

\* what the task of tick ts sends next: the gather of its next input,
\* "gather.ts = ts", and after the loop "&Gather{noop: true, ts: ts}"
taskMessage(task, ts) ==
    IF task.i < Len(task.inputs)
    THEN Gather(<<"runInputs", ts, task.i + 1>>, ts, FALSE, <<task.inputs[task.i + 1]>>)
    ELSE Gather(<<"runInputs", ts, 0>>, ts, TRUE, <<>>)

\* a loop over the inputs that an error ends ("break")
nextInputBreaking(task, fails) == IF fails THEN Len(task.inputs) ELSE task.i + 1

\* "continue", and the end of a turn of the loop: on to the next input
nextInput(task, fails) == task.i + 1

RunInputs(ts, fails) ==
    /\ ts \in DOMAIN tickTasks
    /\ LET task == tickTasks[ts]
           more == task.i < Len(task.inputs)
           m == taskMessage(task, ts)
       IN  /\ fails => more
           /\ IF fails
              THEN UNCHANGED <<recvCh, queued, panics, timeseries, mutators, ingestLog>>
              ELSE chanSend("runInputs", m)
           /\ tickTasks' = IF more
                           THEN [tickTasks EXCEPT ![ts].i = nextInput(task, fails)]
                           ELSE [t \in (DOMAIN tickTasks) \ {ts} |-> tickTasks[t]]
           /\ invoked' = IF more
                         THEN [invoked EXCEPT
                                  ![ts].called = @ \cup {task.i + 1},
                                  ![ts].failed = IF fails THEN @ \cup {task.i + 1} ELSE @]
                         ELSE invoked
    /\ UNCHANGED <<inputs, recvChSize, recvChClosed, closeCh, storage, now, ownerPc,
                   stopPc, addInput, nTicks, nSends>>
    /\ UNCHANGED <<addCall, loops>>
    /\ UNCHANGED <<tsVars, hVars, sVars, xVars>>

\* Send(field): a gather stamped nowFunc() is sent.  Callers are to send no
\* more once Stop has returned.
Send(field) ==
    /\ nSends < MaxSends
    /\ stopPc # "done"
    /\ nSends' = nSends + 1
    /\ chanSend("Send", Gather(<<"Send", now, nSends + 1>>, now, FALSE, <<field>>))
    /\ UNCHANGED <<inputs, recvChSize, recvChClosed, closeCh, storage, now, ownerPc,
                   stopPc, addInput, tickTasks, nTicks>>
    /\ UNCHANGED <<addCall, invoked, loops>>
    /\ UNCHANGED <<tsVars, hVars, sVars, xVars>>

\* Stop() of a started collector: "close(c.closeCh)"
StopClose ==
    /\ stopPc = "idle"
    /\ ownerPc # "none"
    /\ closeCh' = TRUE
    /\ stopPc' = "wait"
    /\ UNCHANGED <<inputs, timeseries, recvCh, recvChSize, recvChClosed, storage, now,
                   ownerPc, addInput, tickTasks, nTicks, nSends, queued, mutators,
                   panics, ingestLog>>
    /\ UNCHANGED <<addCall, invoked, loops>>
    /\ UNCHANGED <<tsVars, hVars, sVars, xVars>>

\* "c.stopWg.Wait()" returns when every goroutine that Start has begun has
\* returned
StopWait ==
    /\ stopPc = "wait"
    /\ ownerPc = "done"
    /\ \A o \in 1..Len(loops) : loops[o].pc = "done"
    /\ stopPc' = "closeRecv"
    /\ UNCHANGED <<inputs, timeseries, recvCh, recvChSize, recvChClosed, closeCh,
                   storage, now, ownerPc, addInput, tickTasks, nTicks, nSends, queued,
                   mutators, panics, ingestLog>>
    /\ UNCHANGED <<addCall, invoked, loops>>
    /\ UNCHANGED <<tsVars, hVars, sVars, xVars>>

\* "close(c.recvCh)"
StopCloseRecv ==
    /\ stopPc = "closeRecv"
    /\ recvChClosed' = TRUE
    /\ stopPc' = "sync"
    /\ UNCHANGED <<inputs, timeseries, recvCh, recvChSize, closeCh, storage, now,
                   ownerPc, addInput, tickTasks, nTicks, nSends, queued, mutators,
                   panics, ingestLog>>
    /\ UNCHANGED <<addCall, invoked, loops>>
    /\ UNCHANGED <<tsVars, hVars, sVars, xVars>>

\* syncStorage, under the Collector lock: Store of every series of the routing
\* table.  It is the last thing Stop does (DeInit aside).
syncStorage(tbl, st) ==
    [n \in (DOMAIN st) \cup (DOMAIN tbl) |-> IF n \in DOMAIN tbl THEN tbl[n] ELSE st[n]]

StopSync ==
    /\ stopPc = "sync"
    /\ storage' = syncStorage(timeseries, storage)
    /\ stopPc' = "done"
    /\ UNCHANGED <<inputs, timeseries, recvCh, recvChSize, recvChClosed, closeCh, now,
                   ownerPc, addInput, tickTasks, nTicks, nSends, queued, mutators,
                   panics, ingestLog>>
    /\ UNCHANGED <<addCall, invoked, loops>>
    /\ UNCHANGED <<tsVars, hVars, sVars, xVars>>

CNext ==
    \/ \E input \in InputNames : AddInput(input, FALSE)
    \/ AddInputReceive
    \/ Start
    \/ OwnerTick
    \/ OwnerReceive
    \/ OwnerClose
    \/ OwnerDrain
    \/ \E ts \in DOMAIN tickTasks, fails \in BOOLEAN : RunInputs(ts, fails)
    \/ \E field \in SendFields : Send(field)
    \/ StopClose
    \/ StopWait
    \/ StopCloseRecv
    \/ StopSync

\* ---- Start() called again: each call begins a goroutine with a ticker of its
\* own and the same select loop.  A loop takes a message off the channel and
\* then calls receive, which waits for the Collector lock.
Loop(pc, m) == [pc |-> pc, m |-> m]

StartAgain ==
    /\ ownerPc # "none"
    /\ stopPc = "idle"
    /\ Len(loops) < MaxStarts - 1
    /\ loops' = Append(loops, Loop("select", <<>>))
    /\ UNCHANGED <<inputs, timeseries, recvCh, recvChSize, recvChClosed, closeCh,
                   storage, now, ownerPc, stopPc, addInput, tickTasks, nTicks, nSends,
                   queued, mutators, panics, ingestLog>>
    /\ UNCHANGED <<addCall, invoked>>
    /\ UNCHANGED <<tsVars, hVars, sVars, xVars>>

\* "case ts := <-ticker.C: go c.runInputs(ts)" in the loop of a later Start
LoopTick(o) ==
    /\ loops[o].pc = "select"
    /\ nTicks < MaxTicks
    /\ nTicks' = nTicks + 1
    /\ now' = now + 1
    /\ tickTasks' = [t \in (DOMAIN tickTasks) \cup {now + 1} |->
                        IF t = now + 1 THEN [inputs |-> inputs, i |-> 0]
                        ELSE tickTasks[t]]
    /\ invoked' = [t \in (DOMAIN invoked) \cup {now + 1} |->
                      IF t = now + 1
                      THEN [n |-> Len(inputs), called |-> {}, failed |-> {}]
                      ELSE invoked[t]]
    /\ UNCHANGED <<inputs, timeseries, recvCh, recvChSize, recvChClosed, closeCh,
                   storage, ownerPc, stopPc, addInput, nSends, queued, mutators,
                   panics, ingestLog>>
    /\ UNCHANGED <<addCall, loops>>
    /\ UNCHANGED <<tsVars, hVars, sVars, xVars>>

\* "case m := <-c.recvCh" in that loop, and the same case of its drain loop:
\* the message is off the channel
LoopTake(o) ==
    /\ loops[o].pc \in {"select", "drain"}
    /\ recvCh # <<>>
    /\ recvCh' = Tail(recvCh)
    /\ loops' = [loops EXCEPT ![o] = Loop(IF loops[o].pc = "select" THEN "receive"
                                          ELSE "drainReceive", <<Head(recvCh)>>)]
    /\ UNCHANGED <<inputs, timeseries, recvChSize, recvChClosed, closeCh, storage, now,
                   ownerPc, stopPc, addInput, tickTasks, nTicks, nSends, queued,
                   mutators, panics, ingestLog>>
    /\ UNCHANGED <<addCall, invoked>>
    /\ UNCHANGED <<tsVars, hVars, sVars, xVars>>

\* "c.receive(m)" in that loop, once it has the lock
LoopReceive(o) ==
    /\ loops[o].pc \in {"receive", "drainReceive"}
    /\ timeseries' = receive(timeseries, loops[o].m[1])
    /\ mutators' = mutators \cup {"owner"}
    /\ ingestLog' = Append(ingestLog, loops[o].m[1].id)
    /\ loops' = [loops EXCEPT ![o] = Loop(IF loops[o].pc = "receive" THEN "select"
                                          ELSE "drain", <<>>)]
    /\ UNCHANGED <<inputs, recvCh, recvChSize, recvChClosed, closeCh, storage, now,
                   ownerPc, stopPc, addInput, tickTasks, nTicks, nSends, queued,
                   panics>>
    /\ UNCHANGED <<addCall, invoked>>
    /\ UNCHANGED <<tsVars, hVars, sVars, xVars>>

\* "case <-c.closeCh: ticker.Stop()" in that loop
LoopClose(o) ==
    /\ loops[o].pc = "select"
    /\ closeCh
    /\ loops' = [loops EXCEPT ![o] = Loop("drain", <<>>)]
    /\ UNCHANGED <<inputs, timeseries, recvCh, recvChSize, recvChClosed, closeCh,
                   storage, now, ownerPc, stopPc, addInput, tickTasks, nTicks, nSends,
                   queued, mutators, panics, ingestLog>>
    /\ UNCHANGED <<addCall, invoked>>
    /\ UNCHANGED <<tsVars, hVars, sVars, xVars>>

\* "default: return" of its drain loop, and the deferred stopWg.Done()
LoopReturn(o) ==
    /\ loops[o].pc = "drain"
    /\ recvCh = <<>>
    /\ loops' = [loops EXCEPT ![o] = Loop("done", <<>>)]
    /\ UNCHANGED <<inputs, timeseries, recvCh, recvChSize, recvChClosed, closeCh,
                   storage, now, ownerPc, stopPc, addInput, tickTasks, nTicks, nSends,
                   queued, mutators, panics, ingestLog>>
    /\ UNCHANGED <<addCall, invoked>>
    /\ UNCHANGED <<tsVars, hVars, sVars, xVars>>

\* ---- the round trip of one input: registered, then started, its ticks one
\* sampling interval apart, each tick task done before the next tick, and
\* Stop at some moment
RegisterFirst ==
    /\ ownerPc = "none"
    /\ \E input \in InputNames : AddInput(input, FALSE)

StartRegistered ==
    /\ inputs # <<>>
    /\ addInput = <<>>
    /\ Start

OwnerTickInTurn ==
    /\ nTicks < RoundTripTicks
    /\ tickTasks = <<>>
    /\ ownerTick

RoundTripNext ==
    \/ RegisterFirst
    \/ AddInputReceive
    \/ StartRegistered
    \/ OwnerTickInTurn
    \/ OwnerReceive
    \/ \E ts \in DOMAIN tickTasks : RunInputs(ts, FALSE)
    \/ OwnerClose
    \/ OwnerDrain
    \/ StopClose
    \/ StopWait
    \/ StopCloseRecv
    \/ StopSync

\* ---- two inputs, registered one by one or in one AddInput call, some
\* reporting an error at registration or at a tick
InputPair == {"cpu", "mem"}

InputLists ==
    {<<a>> : a \in InputPair} \cup {<<a, b>> : <<a, b>> \in {p \in InputPair \X InputPair : p[1] # p[2]}}

InputsNext ==
    \/ \E ins \in InputLists :
          \E failing \in SUBSET {ins[k] : k \in 1..Len(ins)} : addInputs(ins, failing)
    \/ AddInputReceive
    \/ Start
    \/ OwnerTick
    \/ OwnerReceive
    \/ \E ts \in DOMAIN tickTasks, fails \in BOOLEAN : RunInputs(ts, fails)

\* "WithSeries(name, period, maxCount)": the one resolution of the round trip,
\* its period the sampling interval
RoundTripSeries == <<[Name |-> "1m/1s", Period |-> 1, MaxCount |-> 60]>>

\* the outputs registered with AddOutputFunc
RoundTripOutputs == <<"listener">>

\* A TimeSeries with a Counter producer, given the AddTime calls of log from
\* the k-th on while cur is its open bucket: the buckets it closes, each when a
\* call falls into a later bucket.  A value counts one sample of 1.0, a NaN
\* none.
RECURSIVE closedBins(_, _, _, _)
closedBins(log, k, cur, period) ==
    IF k > Len(log) THEN <<>>
    ELSE LET b == log[k].ts - (log[k].ts % period)
             add == IF log[k].nan THEN 0 ELSE 1
             fresh == [open |-> TRUE, Time |-> b, samples |-> add, value |-> add]
         IN  IF ~cur.open THEN closedBins(log, k + 1, fresh, period)
             ELSE IF b <= cur.Time
             THEN closedBins(log, k + 1,
                             [cur EXCEPT !.samples = @ + add, !.value = @ + add], period)
             ELSE <<[Time |-> cur.Time,
                     Value |-> [samples |-> cur.samples, value |-> cur.value],
                     IsNull |-> cur.samples = 0]>>
                  \o closedBins(log, k + 1, fresh, period)

\* "ts.SetMeta(FieldInfo{...})"
FieldInfo(name, ser, typ) ==
    [Name |-> name, Series |-> ser.Name, Period |-> ser.Period, Type |-> typ]

\* an onProduct that returns when there are outputs
onProductUnlessOutputs(outputs, tb, meta) ==
    IF outputs # <<>> THEN <<>>
    ELSE [o \in 1..Len(outputs) |->
             [out |-> outputs[o],
              data |-> [Name |-> meta.Name, Time |-> tb.Time, Value |-> tb.Value,
                        IsNull |-> tb.IsNull, Series |-> meta.Series,
                        Period |-> meta.Period, Type |-> meta.Type]]]

\* onProduct(tb, meta): the Process calls it makes, one per output
onProduct(outputs, tb, meta) ==
    IF outputs = <<>> THEN <<>>
    ELSE [o \in 1..Len(outputs) |->
             [out |-> outputs[o],
              data |-> [Name |-> meta.Name, Time |-> tb.Time, Value |-> tb.Value,
                        IsNull |-> tb.IsNull, Series |-> meta.Series,
                        Period |-> meta.Period, Type |-> meta.Type]]]

RECURSIVE flatten(_, _)
flatten(ss, k) == IF k > Len(ss) THEN <<>> ELSE ss[k] \o flatten(ss, k + 1)

\* the Process calls made so far for the series ser of a counter field
processed(name, ser, outputs) ==
    LET tbs == closedBins(timeseries[name], 1,
                          [open |-> FALSE, Time |-> 0, samples |-> 0, value |-> 0],
                          ser.Period)
    IN  flatten([k \in 1..Len(tbs) |->
                    onProduct(outputs, tbs[k], FieldInfo(name, ser, "counter"))] \o <<>>, 1)

\* a collector nobody uses
CIdle ==
    /\ inputs = <<>>
    /\ timeseries = <<>>
    /\ recvCh = <<>>
    /\ recvChSize = 1
    /\ recvChClosed = FALSE
    /\ closeCh = FALSE
    /\ storage = <<>>
    /\ now = 1
    /\ ownerPc = "none"
    /\ stopPc = "idle"
    /\ addInput = <<>>
    /\ tickTasks = <<>>
    /\ nTicks = 0
    /\ nSends = 0
    /\ queued = {}
    /\ mutators = {}
    /\ panics = {}
    /\ ingestLog = <<>>
    /\ addCall = NoAddCall
    /\ invoked = <<>>
    /\ loops = <<>>

\* ================================================= Collector and Storage
\* receive and syncStorage run under the Collector lock, one at a time; here
\* they act on every series of the routing table and on what Storage holds.
\* The messages are those with a field; a marker adds NaN to the series there
\* are and leaves the routing table and Storage as they were.
CollectorSeries(name, period, count) ==
    [Name |-> name, Period |-> period, MaxCount |-> count]

\* the WithSeries options tried: one resolution, two of different periods, two
\* of one period
SeriesLists ==
    {<<CollectorSeries("1m/1s", 1, 60)>>,
     <<CollectorSeries("1m/1s", 1, 60), CollectorSeries("1h/1m", 60, 60)>>,
     <<CollectorSeries("1m/1s", 1, 60), CollectorSeries("5m/1s", 1, 300)>>}

\* the fields received, in the order syncStorage is taken to visit them (Go
\* ranges over the map in no fixed order; keys of different fields differ)
FieldOrder == <<"cpu", "mem">>

LastOp(name, field, created) == [name |-> name, field |-> field, created |-> created]

\* time.Duration.String(): one text per duration
durationString(d) == <<"Duration", d>>

\* cleanPath(name): a text made from the name alone
cleanPath(path) == <<"cleanPath", path>>

\* "seriesName := cleanPath(ts.interval.String())"
seriesName(ts) == cleanPath(durationString(ts.interval))

\* NewTimeSeries(ser.Period, ser.MaxCount, ...) and SetMeta(FieldInfo{Series: ser.Name})
NewTimeSeries(ser) ==
    [Series |-> ser.Name, interval |-> ser.Period, maxCount |-> ser.MaxCount,
     data |-> <<>>]

\* c.storage.Load(field, name): an error, nothing (nothing stored under that
\* key), or the data stored
Load(field, name, fails) ==
    IF fails THEN [outcome |-> "error", data |-> <<>>]
    ELSE IF <<field, name>> \in DOMAIN stored
    THEN [outcome |-> "data", data |-> stored[<<field, name>>]]
    ELSE [outcome |-> "absent", data |-> <<>>]

\* makeMultiTimeSeries(field): one TimeSeries per element of c.series, in that
\* order, each given the data Load returns when it returns some
makeMultiTimeSeries(field, loadErrs) ==
    [i \in 1..Len(series) |->
        LET ts == NewTimeSeries(series[i])
            l == Load(field, seriesName(ts), i \in loadErrs)
        IN  IF l.outcome = "data" THEN [ts EXCEPT !.data = l.data] ELSE ts]

\* a lookup that never finds the field
existsNever(tbl, field) == FALSE

\* "if fm, exists := c.timeseries[field.Name]; exists"
exists(tbl, field) == field \in DOMAIN tbl

\* a collector without series, fields or stored data
SIdle ==
    /\ series = <<>>
    /\ table = <<>>
    /\ stored = <<>>
    /\ loads = <<>>
    /\ stores = <<>>
    /\ sop = LastOp("none", "", FALSE)

\* NewCollector(WithSeries(...)..., WithStorage(s)), s holding nothing
SInit ==
    /\ series \in SeriesLists
    /\ table = <<>>
    /\ stored = <<>>
    /\ loads = <<>>
    /\ stores = <<>>
    /\ sop = LastOp("NewCollector", "", FALSE)

\* receive(m), m a message with the one field: the field's series are looked
\* up, or made and registered, and each is given the value
SReceive(field, loadErrs) ==
    /\ loadErrs # {} => ~exists(table, field)
    /\ LET multi == IF exists(table, field) THEN table[field]
                  ELSE makeMultiTimeSeries(field, loadErrs)
       IN  /\ \A i \in 1..Len(multi) : Len(multi[i].data) < MaxReceives
           /\ table' = [n \in (DOMAIN table) \cup {field} |->
                            IF n = field
                            THEN [i \in 1..Len(multi) |->
                                     [multi[i] EXCEPT !.data = Append(@, "value")]]
                            ELSE table[n]]
           /\ loads' = IF exists(table, field) THEN <<>>
                       ELSE [i \in 1..Len(series) |->
                                LET name == seriesName(NewTimeSeries(series[i]))
                                IN  [field |-> field, i |-> i, name |-> name,
                                     outcome |-> Load(field, name, i \in loadErrs).outcome]]
           /\ sop' = LastOp("receive", field, ~exists(table, field))
    /\ UNCHANGED <<series, stored, stores>>
    /\ UNCHANGED <<tsVars, hVars, cVars, xVars>>

\* the Store calls of a pass that ends at the first error
syncCallsUntilError(tbl, storeErrs) ==
    LET names == SelectSeq(FieldOrder, LAMBDA n : n \in DOMAIN tbl)
        all == flatten([k \in 1..Len(names) |->
                          [i \in 1..Len(tbl[names[k]]) |->
                              [field |-> names[k], i |-> i,
                               name |-> seriesName(tbl[names[k]][i]),
                               data |-> tbl[names[k]][i].data,
                               err |-> <<names[k], i>> \in storeErrs]] \o <<>>] \o <<>>, 1)
        bad == {k \in 1..Len(all) : all[k].err}
    IN  IF bad = {} THEN all
        ELSE SubSeq(all, 1, CHOOSE k \in bad : \A j \in bad : k <= j)

\* the Store calls of syncStorage: one for every series of every field,
\* whatever the earlier calls returned
syncCalls(tbl, storeErrs) ==
    LET names == SelectSeq(FieldOrder, LAMBDA n : n \in DOMAIN tbl)
    IN  flatten([k \in 1..Len(names) |->
                    [i \in 1..Len(tbl[names[k]]) |->
                        [field |-> names[k], i |-> i,
                         name |-> seriesName(tbl[names[k]][i]),
                         data |-> tbl[names[k]][i].data,
                         err |-> <<names[k], i>> \in storeErrs]] \o <<>>] \o <<>>, 1)

\* what Storage holds after these calls, those that failed leaving it as it was
RECURSIVE storeAll(_, _, _)
storeAll(st, calls, k) ==
    IF k > Len(calls) THEN st
    ELSE IF calls[k].err THEN storeAll(st, calls, k + 1)
    ELSE LET key == <<calls[k].field, calls[k].name>>
         IN  storeAll([x \in (DOMAIN st) \cup {key} |->
                          IF x = key THEN calls[k].data ELSE st[x]], calls, k + 1)

\* syncStorage()
SSync(storeErrs) ==
    /\ table # <<>>
    /\ stores' = syncCalls(table, storeErrs)
    /\ stored' = storeAll(stored, stores', 1)
    /\ loads' = <<>>
    /\ sop' = LastOp("sync", "", FALSE)
    /\ UNCHANGED <<series, table>>
    /\ UNCHANGED <<tsVars, hVars, cVars, xVars>>

\* the process ends and a new one builds its collector on the same options
\* and the same Storage
SRestart ==
    /\ table # <<>>
    /\ table' = <<>>
    /\ loads' = <<>>
    /\ stores' = <<>>
    /\ sop' = LastOp("NewCollector", "", FALSE)
    /\ UNCHANGED <<series, stored>>
    /\ UNCHANGED <<tsVars, hVars, cVars, xVars>>

SNext ==
    \/ \E field \in Range(FieldOrder) :
          \E loadErrs \in SUBSET (1..Len(series)) : SReceive(field, loadErrs)
    \/ SSync({})
    \/ \E n \in DOMAIN table : \E i \in 1..Len(series) : SSync({<<n, i>>})
    \/ SRestart

\* a Meter nobody has marked: "m := &Meter{}"
NewMeter == [value |-> 0, min |-> 0, max |-> 0, sum |-> 0, count |-> 0]

\* the values marked, and the number of calls followed
MarkValues == {-2, -1, 0, 1, 2}
MaxMarks == 3

\* Meter.Mark(v) of a Meter that has no extension (m.exts is empty); marks
\* lists the values marked since construction or Reset
Mark(v) ==
    /\ Len(marks) < MaxMarks
    /\ LET count == meter.count + 1
       IN  meter' = [value |-> v,
                     sum   |-> meter.sum + v,
                     count |-> count,
                     min   |-> IF count = 1 \/ v < meter.min THEN v ELSE meter.min,
                     max   |-> IF v > meter.max THEN v ELSE meter.max]
    /\ marks' = Append(marks, v)
    /\ UNCHANGED <<mu, prog, lq, inBucket, clock, readings>>
    /\ UNCHANGED <<tsVars, hVars, cVars, sVars>>

\* Meter.Reset()
Reset ==
    /\ marks # <<>>
    /\ meter' = [value |-> 0, min |-> 0, max |-> 0, sum |-> 0, count |-> 0]
    /\ marks' = <<>>
    /\ UNCHANGED <<mu, prog, lq, inBucket, clock, readings>>
    /\ UNCHANGED <<tsVars, hVars, cVars, sVars>>

\* Meter.Snapshot()
MeterSnapshot ==
    [Value |-> meter.value, Count |-> meter.count, Sum |-> meter.sum,
     Min |-> meter.min, Max |-> meter.max]

MeterNext ==
    \/ \E v \in MarkValues : Mark(v)
    \/ Reset

\* ====================================================== the Collector lock
\* Each method of the Collector is a list of steps: taking and releasing the
\* Collector's mutex, reading or writing c.timeseries, c.inputs or c.outputs,
\* invoking an input (Init, Gather), sending on recvCh, and the owner's wait
\* in its select.  A task is at the first step of its list until that step is
\* over.
Step(kind, obj) == [kind |-> kind, obj |-> obj]

\* receive(m): "c.Lock(); defer c.Unlock()", the routing table looked up and
\* written, the series fed; a series that completes a bucket calls onProduct,
\* which ranges over c.outputs
receiveSteps ==
    <<Step("Lock", "mu"), Step("write", "timeseries"), Step("read", "outputs"),
      Step("Unlock", "mu")>>

\* one turn of the loop of Start: the select, and "case m := <-c.recvCh:
\* c.receive(m)"
ownerSteps == <<Step("select", "recvCh")>> \o receiveSteps

\* AddInput(input): "c.Lock()", the input's Init and Gather, the append to
\* c.inputs; the deferred function unlocks and calls receive
addInputSteps ==
    <<Step("Lock", "mu"), Step("invoke", "input"), Step("write", "inputs"),
      Step("Unlock", "mu")>> \o receiveSteps

\* AddOutputFunc(output): "c.outputs = append(c.outputs, ...)"
addOutputFuncSteps == <<Step("write", "outputs")>>

\* runInputs(ts) with one input: "range c.inputs", its Gather, the gather and
\* then the marker sent
runInputsSteps ==
    <<Step("read", "inputs"), Step("invoke", "input"), Step("send", "recvCh"),
      Step("send", "recvCh")>>

\* Inflight(field): "c.timeseries[field]"
inflightSteps == <<Step("read", "timeseries")>>

\* Timeseries(name)
timeseriesSteps ==
    <<Step("Lock", "mu"), Step("read", "timeseries"), Step("Unlock", "mu")>>

\* syncStorage()
syncStorageSteps ==
    <<Step("Lock", "mu"), Step("read", "timeseries"), Step("Unlock", "mu")>>

\* Stop(), from syncStorage on: the DeInit loops range over c.inputs and
\* c.outputs
stopSteps == syncStorageSteps \o <<Step("read", "inputs"), Step("read", "outputs")>>

Callers == {"AddInput", "AddOutputFunc", "runInputs", "Inflight", "Timeseries", "Stop"}

Tasks == Callers \cup {"owner"}

stepsOf(task) ==
    CASE task = "owner"         -> ownerSteps
      [] task = "AddInput"      -> addInputSteps
      [] task = "AddOutputFunc" -> addOutputFuncSteps
      [] task = "runInputs"     -> runInputsSteps
      [] task = "Inflight"      -> inflightSteps
      [] task = "Timeseries"    -> timeseriesSteps
      [] task = "Stop"          -> stopSteps

\* the tasks that are in a call, and the step each is at
running == {task \in Tasks : prog[task] # <<>>}

at(task) == Head(prog[task])

\* a started collector: the owner is in its select, nobody else is in a call
LInit ==
    /\ mu = "free"
    /\ lq = 0
    /\ prog = [task \in Tasks |-> IF task = "owner" THEN ownerSteps ELSE <<>>]
    /\ meter = NewMeter
    /\ marks = <<>>
    /\ inBucket = <<>>
    /\ clock = 0
    /\ readings = <<>>

\* a goroutine calls a method; the ticker starts a tick task.  Stop() is
\* called once; its close(closeCh) and stopWg.Wait() are over when the owner,
\* back in its select, has returned.
LCall(task) ==
    /\ task \in Callers
    /\ prog[task] = <<>>
    /\ "owner" \in running
    /\ task = "Stop" => at("owner").kind = "select"
    /\ prog' = [prog EXCEPT ![task] = stepsOf(task),
                            !["owner"] = IF task = "Stop" THEN <<>> ELSE @]
    /\ UNCHANGED <<mu, lq, meter, marks, inBucket, clock, readings>>
    /\ UNCHANGED <<tsVars, hVars, cVars, sVars>>

\* the step a task is at is over: a Lock when the mutex is free, the select
\* when it has a message, a send when the queue has room, any other at once.
\* The owner then begins the next turn of its loop.
LStep(task) ==
    /\ task \in running
    /\ at(task).kind = "Lock" => mu = "free"
    /\ at(task).kind = "select" => lq > 0
    /\ at(task).kind = "send" => lq < MaxBuffer
    /\ mu' = CASE at(task).kind = "Lock" -> task
               [] at(task).kind = "Unlock" -> "free"
               [] OTHER -> mu
    /\ lq' = CASE at(task).kind = "select" -> lq - 1
               [] at(task).kind = "send" -> lq + 1
               [] OTHER -> lq
    /\ prog' = [prog EXCEPT ![task] =
                    IF task = "owner" /\ Tail(@) = <<>> THEN ownerSteps ELSE Tail(@)]
    /\ UNCHANGED <<meter, marks, inBucket, clock, readings>>
    /\ UNCHANGED <<tsVars, hVars, cVars, sVars>>

LNext ==
    \/ \E task \in Callers : LCall(task)
    \/ \E task \in Tasks : LStep(task)

\* ======================================================== specifications
\* no task at the Collector lock, a Meter and a time source nobody uses
XIdle ==
    /\ mu = "free"
    /\ prog = <<>>
    /\ lq = 0
    /\ meter = NewMeter
    /\ marks = <<>>
    /\ inBucket = <<>>
    /\ clock = 0
    /\ readings = <<>>

InitTimeSeries == TSInit /\ HIdle /\ CIdle /\ SIdle /\ XIdle

SpecTimeSeries == InitTimeSeries /\ [][TSNext]_vars

\* a series that is queried; one aggregator is enough, no query looks at it
\* a new series, queried before any point is added
SpecTimeSeriesNew == InitTimeSeries /\ [][TSNewQueryNext]_vars

\* m := &Meter{}
InitMeter == TSIdle /\ HIdle /\ CIdle /\ SIdle /\ XIdle

SpecMeter == InitMeter /\ [][MeterNext]_vars

\* a series that aggregates by LAST or by SUM, fed in order of time
InitTimeSeriesInOrder ==
    TSInit /\ aggregator \in {"LAST", "SUM"} /\ HIdle /\ CIdle /\ SIdle /\ XIdle

SpecTimeSeriesInOrder == InitTimeSeriesInOrder /\ [][TSInOrderNext]_vars

InitTimeSeriesQueries == TSInit /\ aggregator = "LAST" /\ HIdle /\ CIdle /\ SIdle /\ XIdle

SpecTimeSeriesQueries == InitTimeSeriesQueries /\ [][TSQueryNext]_vars

InitMultiTimeSeries == MInit /\ HIdle /\ CIdle /\ SIdle /\ XIdle

SpecMultiTimeSeries == InitMultiTimeSeries /\ [][MNext]_vars

SpecMultiTimeSeriesAdd == InitMultiTimeSeries /\ [][MAddNext]_vars

InitHistogram == HInit /\ TSIdle /\ CIdle /\ SIdle /\ XIdle

SpecHistogram == InitHistogram /\ [][HNext]_vars

SpecHistogramAdds == InitHistogram /\ [][HAddsNext]_vars

InitHistogramAscending == HAscendingInit /\ TSIdle /\ CIdle /\ SIdle /\ XIdle

SpecHistogramAscending == InitHistogramAscending /\ [][HAscendingNext]_vars

SpecHistogramOperations == InitHistogram /\ [][HOperationsNext]_vars

InitCollector == CInit /\ TSIdle /\ HIdle /\ SIdle /\ XIdle

SpecCollector == InitCollector /\ [][CNext]_vars

SpecCollectorRoundTrip == InitCollector /\ [][RoundTripNext]_vars

SpecCollectorInputs == InitCollector /\ [][InputsNext]_vars

StartsNext ==
    \/ RegisterFirst
    \/ AddInputReceive
    \/ StartRegistered
    \/ StartAgain
    \/ OwnerTick
    \/ OwnerReceive
    \/ OwnerClose
    \/ OwnerDrain
    \/ \E o \in 1..Len(loops) : LoopTick(o)
    \/ \E o \in 1..Len(loops) : LoopTake(o)
    \/ \E o \in 1..Len(loops) : LoopReceive(o)
    \/ \E o \in 1..Len(loops) : LoopClose(o)
    \/ \E o \in 1..Len(loops) : LoopReturn(o)
    \/ \E ts \in DOMAIN tickTasks : RunInputs(ts, FALSE)
    \/ \E field \in SendFields : Send(field)
    \/ StopClose
    \/ StopWait
    \/ StopCloseRecv
    \/ StopSync

SpecCollectorStarts == InitCollector /\ [][StartsNext]_vars

\* The collector in a process that a panic ends: a send on the closed queue is
\* the last step of a run ("panic: send on closed channel" in a goroutine that
\* recovers nothing ends the program).  Every goroutine that can take a step
\* takes it in the end.
LiveNext == panics = {} /\ CNext

SpecCollectorLive ==
    /\ InitCollector
    /\ [][LiveNext]_vars
    /\ WF_vars(panics = {} /\ OwnerReceive)
    /\ WF_vars(panics = {} /\ OwnerClose)
    /\ WF_vars(panics = {} /\ OwnerDrain)
    /\ WF_vars(panics = {} /\ StopWait)
    /\ WF_vars(panics = {} /\ StopCloseRecv)
    /\ WF_vars(panics = {} /\ StopSync)

InitCollectorLock == LInit /\ TSIdle /\ HIdle /\ CIdle /\ SIdle

SpecCollectorLock == InitCollectorLock /\ [][LNext]_vars

InitCollectorStorage == SInit /\ TSIdle /\ HIdle /\ CIdle /\ XIdle

SpecCollectorStorage == InitCollectorStorage /\ [][SNext]_vars


\* ------------------------------------------------- TimeSeries properties
\* what the last call was given, and the series it found
called == op.name = "AddTime"
pre == op.pre
preLast == pre[Len(pre)]
datum == TimePoint(op.t, op.v, 1)
\* the bucket index of a time, and the buckets the last call advanced by
bucket(t) == t \div interval
advanced == bucket(op.t) - bucket(preLast.Time)
rolled == called /\ pre # <<>> /\ 0 < advanced /\ advanced < maxCount
sameValue(p, q) == p.Value = q.Value /\ p.Count = q.Count
Min2(a, b) == IF a < b THEN a ELSE b

\* C1: with non-decreasing times and maxCount >= 1 the series never holds more
\* than maxCount points, and an advance keeps the newest of the old points: what
\* is left of the old series is its tail, in order, only its oldest points gone.
C1_BoundedMostRecent ==
    (monotone /\ maxCount >= 1) =>
        /\ Len(data) <= maxCount
        /\ rolled =>
            LET kept == Len(data) - advanced
                gone == Len(pre) - kept
            IN  /\ Len(data) = Min2(Len(pre) + advanced, maxCount)
                /\ kept >= 1
                /\ \A j \in 1..kept :
                      /\ sameValue(data[j], pre[gone + j])
                      /\ data[j].Time \in {pre[gone + j].Time,
                                           roundTime(pre[gone + j].Time)}
                /\ \A j \in 1..(kept - 1) : data[j] = pre[gone + j]

\* an advance of two buckets that had to evict
C1_Witness ==
    /\ monotone /\ rolled /\ advanced = 2
    /\ Len(pre) + advanced > maxCount
    /\ Len(data) = maxCount

\* C5: an advance by roll buckets, 0 < roll < maxCount, puts exactly roll-1
\* placeholders (count 0) after the previously last point, at
\* lastTime + k*interval for k = 1..roll-1, and then the new datum.
C5_PlaceholdersAtLastPlusK ==
    rolled =>
        /\ Len(data) >= advanced + 1
        /\ data[Len(data)] = datum
        /\ sameValue(data[Len(data) - advanced], preLast)
        /\ \A k \in 1..(advanced - 1) :
              /\ data[Len(data) - advanced + k].Count = 0
              /\ data[Len(data) - advanced + k].Time = preLast.Time + k * interval

\* C6 as stated: with non-decreasing times the stored points ascend and are
\* exactly one interval apart (a full reset leaves a single point).
C6_ExactlyOneIntervalApart ==
    monotone =>
        \A j \in 1..(Len(data) - 1) : data[j + 1].Time - data[j].Time = interval

\* C6 amended: with non-decreasing times the stored times never decrease, and
\* with useRawTime set consecutive points lie in consecutive buckets.
C6_OrderedConsecutiveBuckets ==
    monotone =>
        \A j \in 1..(Len(data) - 1) :
            /\ data[j].Time <= data[j + 1].Time
            /\ useRawTime => bucket(data[j + 1].Time) = bucket(data[j].Time) + 1

\* raw times, a gap that was filled with a placeholder
C6_Witness ==
    /\ monotone /\ useRawTime /\ rolled /\ advanced = 2
    /\ Len(data) = 3
    /\ data[2].Count = 0

\* C7: a call at least maxCount*interval after the last stored time leaves
\* only the new point.
C7_FullGapReset ==
    (called /\ pre # <<>> /\ op.t >= preLast.Time + maxCount * interval) =>
        data = <<datum>>

\* the jump is exactly maxCount buckets and throws away two points
C7_Witness ==
    /\ called /\ Len(pre) >= 2
    /\ op.t >= preLast.Time + maxCount * interval
    /\ advanced = maxCount
    /\ data = <<datum>>

\* C8: a call in the bucket of the last point, or in an earlier bucket, changes
\* the last point only: the datum replaces it when there is no aggregator,
\* aggregator(last, datum) otherwise.
C8_SameBucketTouchesLastOnly ==
    (called /\ pre # <<>> /\ advanced <= 0) =>
        /\ Len(data) = Len(pre)
        /\ \A j \in 1..(Len(pre) - 1) : data[j] = pre[j]
        /\ data[Len(data)] = IF aggregator = "nil" THEN datum
                             ELSE Aggregate(aggregator, preLast, datum)

\* a late sample, one bucket back, aggregated into the last of two points
C8_Witness ==
    /\ called /\ Len(pre) >= 2 /\ advanced < 0
    /\ aggregator = "SUM"
    /\ data[Len(data)].Count = 2

\* the time each query reports for the last point
reportedLast ==
    {Last.time, LastN(Len(data)).times[Len(data)], Values.times[Len(data)],
     Snapshot.Times[Len(data)]}

\* C9 as stated: the last point is reported at (t + interval/2) truncated to a
\* multiple of the interval, or at t unchanged with useRawTime.
C9_ReportedTruncated ==
    data # <<>> =>
        reportedLast = {IF useRawTime THEN data[Len(data)].Time
                        ELSE Truncate(data[Len(data)].Time + (interval \div 2),
                                      interval)}

\* C9 amended: the last point is reported at t + interval/2 rounded to the
\* nearest multiple of the interval, halves up; for an even interval that is
\* the end of the bucket of t.  With useRawTime it is reported at t unchanged.
C9_ReportedRounded ==
    data # <<>> =>
        \A R \in reportedLast :
            LET t == data[Len(data)].Time
                h == t + (interval \div 2)
            IN  IF useRawTime THEN R = t
                ELSE /\ R % interval = 0
                     /\ 2 * (R - h) <= interval
                     /\ 2 * (h - R) < interval
                     /\ interval % 2 = 0 => R = Truncate(t, interval) + interval

\* a sample in the first half of its bucket, reported at the end of the bucket
C9_Witness ==
    /\ called /\ ~useRawTime /\ interval = 2
    /\ data[Len(data)].Time % interval = 0
    /\ Last.time = data[Len(data)].Time + interval

\* C10: with useRawTime unset and non-decreasing times the point of bucket
\* [b, b+interval) is reported at b+interval by String, Snapshot, Values and
\* Last, as the last point and, once superseded, as an earlier point.  (Stated
\* for even intervals, where b+interval is where roundTime takes every time of
\* the bucket.)
C10_ReportedAtBucketEnd ==
    (monotone /\ ~useRawTime /\ interval % 2 = 0 /\ data # <<>>) =>
        /\ LET b == Truncate(data[Len(data)].Time, interval)
           IN  /\ Last.time = b + interval
               /\ Snapshot.Times[Len(data)] = b + interval
               /\ Values.times[Len(data)] = b + interval
               /\ String[Len(data)].ts = FormatRFC3339(b + interval)
        /\ rolled =>
              LET b == Truncate(preLast.Time, interval)
                  i == Len(data) - advanced
              IN  /\ Snapshot.Times[i] = b + interval
                  /\ Values.times[i] = b + interval
                  /\ String[i].ts = FormatRFC3339(b + interval)


\* the last query ran after the last AddTime
fresh == held.name # "none" /\ held.at = op.calls
sequences == {"LastN", "After", "Values"}

reportedAt(i) == IF i = Len(data) THEN roundTime(data[i].Time) ELSE data[i].Time

\* C12: After(t) returns the points from the first one whose time, truncated
\* to the interval, is >= t - interval/2, nothing when there is none; so for t
\* the reported time of a stored point it returns that point and all later.
C12_AfterFromTruncatedTime ==
    (fresh /\ held.name = "After" /\ monotone) =>
        LET tick == held.arg - (interval \div 2)
            from == {i \in 1..Len(data) : Truncate(data[i].Time, interval) >= tick}
            n == Len(held.ret.times)
        IN  /\ from = {} => n = 0
            /\ from # {} => \E i \in from :
                                /\ \A j \in from : i <= j
                                /\ n = Len(data) - i + 1
            /\ \A i \in 1..Len(data) :
                  reportedAt(i) = held.arg => n >= Len(data) - i + 1

\* ------------------------------------------- MultiTimeSeries properties
sameSettings(p, q) ==
    /\ p.interval = q.interval
    /\ p.maxCount = q.maxCount
    /\ p.aggregator = q.aggregator

\* C13: MultiTimeSeries.AddTime(t, v) leaves each of its series as AddTime(t, v)
\* on that series alone, with that series' interval, maxCount and aggregator,
\* would have left it; a series the loop has not reached is as it was, one it
\* has passed stays as its own call left it, and none is skipped.
C13_EachSeriesAsIfAlone ==
    mcall.phase # "idle" =>
        /\ Len(mts) = Len(mcall.pre)
        /\ \A j \in 1..Len(mts) :
              /\ sameSettings(mts[j], mcall.pre[j])
              /\ mts[j].data = IF j <= Len(mcall.fed) THEN mcall.fed[j]
                               ELSE mcall.pre[j].data
        /\ (mcall.phase \in {"range", "done"} /\ mcall.i >= 1) =>
              /\ mcall.i <= Len(mts)
              /\ sameSettings([interval |-> interval, maxCount |-> maxCount,
                               aggregator |-> aggregator], mts[mcall.i])
              /\ mts[mcall.i].data =
                    addPoint(mcall.pre[mcall.i].data, TimePoint(mcall.t, mcall.v, 1))
        /\ mcall.phase = "done" => Len(mcall.fed) = Len(mts)

\* a call has returned that made two series of different settings differ
C13_Witness ==
    /\ mcall.phase = "done"
    /\ mts[1].interval # mts[2].interval
    /\ mts[1].aggregator # mts[2].aggregator
    /\ Len(mts[1].data) # Len(mts[2].data)
    /\ mts[1].data # mcall.pre[1].data
    /\ mts[2].data # mcall.pre[2].data

\* -------------------------------------------------- Histogram properties
\* C2: whatever calls came before, the histogram holds at most maxBins bins
\* after an Add, at most 100 when it was constructed with maxBins <= 0.
C2_AtMostMaxBins ==
    Len(bins) <= (IF newMaxBins <= 0 THEN 100 ELSE newMaxBins)

\* the Add that takes a histogram on the default budget past 100 bins
C2_Witness ==
    /\ hop.name = "Add"
    /\ newMaxBins <= 0
    /\ total = 101
    /\ Len(bins) = 100

\* C14: the bins are in ascending order of value, after every insertion and
\* every merge.
C14_BinsAscending ==
    \A i \in 1..(Len(bins) - 1) : ~FracLess(bins[i + 1].value, bins[i].value)

\* an Add that put its sample before the last bin and ended with a merged bin
C14_Witness ==
    /\ hop.name = "Add"
    /\ Len(bins) >= 2
    /\ FracLess(FracOf(hop.arg), bins[Len(bins)].value)
    /\ \E i \in 1..Len(bins) : bins[i].count >= 2

\* C15: Quantile(q1) <= Quantile(q2) whenever q1 <= q2, both in [0, 1].
C15_QuantileMonotone ==
    LET answers == [i \in 1..(QSteps + 1) |-> Quantile(i - 1)] \o <<>>
    IN  \A i1 \in 1..(QSteps + 1) : \A i2 \in i1..(QSteps + 1) :
            ~FracLess(answers[i2], answers[i1])

\* merged bins, and quantiles that differ
C15_Witness ==
    /\ hop.name = "Quantile"
    /\ \E i \in 1..Len(bins) : bins[i].count >= 2
    /\ FracLess(Quantile(1), Quantile(QSteps - 1))

RECURSIVE sumCounts(_, _)
sumCounts(bs, i) == IF i > Len(bs) THEN 0 ELSE bs[i].count + sumCounts(bs, i + 1)

\* C16: total is the number of Add calls since NewHistogram or the last Reset,
\* and the counts of the bins add up to it, merged or not.
C16_TotalIsSumOfCounts ==
    /\ total = Len(samples)
    /\ sumCounts(bins, 1) = total

\* Adds that led to a merge
C16_Witness ==
    /\ hop.name = "Add"
    /\ total >= 3
    /\ Len(bins) < total

\* the least integer >= a/b, b > 0
ceilDiv(a, b) == (a + b - 1) \div b

C18_AscendingPairsMerge ==
    (total = 2 * newMaxBins /\ samples = [i \in 1..total |-> i]) =>
        /\ Len(bins) = newMaxBins
        /\ \A k \in 1..Len(bins) : bins[k] = Bin(Frac(4 * k - 1, 2), 2)
        /\ (hop.name = "Quantile" /\ hop.arg >= 1) =>
              hop.result = Frac(4 * ceilDiv(hop.arg * newMaxBins, QSteps) - 1, 2)

\* the hundred samples of the test, and a quantile asked of them
C18_Witness ==
    /\ newMaxBins = TestMaxBins
    /\ total = 2 * TestMaxBins
    /\ Len(bins) = TestMaxBins
    /\ hop.name = "Quantile" /\ hop.arg = QSteps
    /\ hop.result = Frac(199, 2)

\* C19: Quantiles(qs...) returns as many values as it was given quantiles, the
\* i-th being Quantile(qs[i]), whatever their order, repeated or not, 0 for
\* one that no bin satisfies.
C19_QuantilesAsQuantile ==
    hop.name = "Quantiles" =>
        /\ Len(hop.result) = Len(hop.arg)
        /\ \A i \in 1..Len(hop.arg) : hop.result[i] = Quantile(hop.arg[i])

\* a larger quantile asked before a smaller one, of merged bins, with
\* different answers
C19_Witness ==
    /\ hop.name = "Quantiles"
    /\ Len(hop.arg) = 2
    /\ hop.arg[1] > hop.arg[2] /\ hop.arg[1] <= QSteps
    /\ FracLess(hop.result[2], hop.result[1])
    /\ \E i \in 1..Len(bins) : bins[i].count >= 2

\* C20: every public operation, called while nobody holds the lock, takes the
\* lock, returns and leaves the lock released: the lock is never left held by
\* a call that cannot go on.
C20_EveryOperationReturns == hmu = "free"

\* ----------------------------------------------------------- Collector
\* the messages whose value some series of the table holds
ingested(tbl) == {m \in queued : \E n \in DOMAIN tbl : \E k \in 1..Len(tbl[n]) : tbl[n][k].id = m.id}

\* C3: once Stop() has returned, every message that was enqueued onto the
\* inbound queue (markers aside, which carry no value) has been ingested and is
\* in what the final sync stored: nothing accepted is dropped at shutdown.
C3_NoAcceptedMessageDropped ==
    stopPc = "done" => \A m \in queued : ~m.noop => m \in ingested(storage)

fromQueue(log) == SelectSeq(log, LAMBDA id : id[1] # "AddInput")

arrival == fromQueue(ingestLog) \o [k \in 1..Len(recvCh) |-> recvCh[k].id]

occurrences(log, id) == Cardinality({k \in 1..Len(log) : log[k] = id})

position(log, id) == CHOOSE k \in 1..Len(log) : log[k] = id

isMarker(id) == id[1] = "runInputs" /\ id[3] = 0

\* C21: the task of a tick enqueues the messages of its inputs, stamped with the
\* tick's timestamp, and then one marker, without fields; the marker is enqueued
\* only when the task has no input left, once, after every message of its tick,
\* and is ingested after them.
C21_MarkerClosesItsTick ==
    /\ \A m \in queued : m.id[1] = "runInputs" =>
          /\ m.ts = m.id[2]
          /\ occurrences(arrival, m.id) = 1
          /\ m.noop <=> m.fields = <<>>
          /\ m.noop =>
                /\ m.ts \notin DOMAIN tickTasks
                /\ \A g \in queued :
                      (g.id[1] = "runInputs" /\ g.ts = m.ts /\ ~g.noop) =>
                          position(arrival, g.id) < position(arrival, m.id)
    /\ \A t \in 2..now :
          (t \notin DOMAIN tickTasks /\ "runInputs" \notin panics) =>
              \E m \in queued : m.noop /\ m.ts = t

\* the gather of a tick and the marker of that tick, both ingested
C21_Witness ==
    \E i \in 1..Len(ingestLog) : \E j \in (i + 1)..Len(ingestLog) :
        /\ ingestLog[i][1] = "runInputs" /\ ~isMarker(ingestLog[i])
        /\ isMarker(ingestLog[j])
        /\ ingestLog[j][2] = ingestLog[i][2]

\* C22: when the owner loop has ingested a marker, every series of the routing
\* table has been given to Storage.Store as it is then.
C22_MarkerSyncsStorage ==
    (ingestLog # <<>> /\ isMarker(ingestLog[Len(ingestLog)])) =>
        \A n \in DOMAIN timeseries :
            n \in DOMAIN storage /\ storage[n] = timeseries[n]

\* m1 and m2 come from the same caller, m1 first: two messages of one tick
\* task, or two Send calls (Send returns before the next begins)
sameCallerBefore(m1, m2) ==
    /\ m1.id[1] = m2.id[1]
    /\ \/ /\ m1.id[1] = "runInputs"
          /\ m1.id[2] = m2.id[2]
          /\ ~m1.noop
          /\ m2.noop \/ m1.id[3] < m2.id[3]
       \/ /\ m1.id[1] = "Send"
          /\ m1.id[3] < m2.id[3]

\* C23: a message accepted onto the queue is either still queued or has been
\* ingested, once; of two messages of one caller the second is ingested only
\* after the first.
C23_OnceAndInCallerOrder ==
    /\ \A m \in queued :
          occurrences(ingestLog, m.id)
              + Cardinality({k \in 1..Len(recvCh) : recvCh[k] = m}) = 1
    /\ \A m1 \in queued : \A m2 \in queued :
          (sameCallerBefore(m1, m2) /\ occurrences(ingestLog, m2.id) = 1) =>
              /\ occurrences(ingestLog, m1.id) = 1
              /\ position(ingestLog, m1.id) < position(ingestLog, m2.id)

\* two messages of one caller ingested, and a Send message among the ingested
C23_Witness ==
    /\ \E m1 \in queued : \E m2 \in queued :
          /\ sameCallerBefore(m1, m2)
          /\ occurrences(ingestLog, m2.id) = 1
    /\ \E k \in 1..Len(ingestLog) : ingestLog[k][1] = "Send"
    /\ Len(ingestLog) >= 3

C25_FailedInputNotRegistered ==
    /\ (addCall.err # <<>>) <=> (addCall.failing # {})
    /\ Range(addCall.err) = addCall.failing
    /\ inputs = addCall.before
                    \o SelectSeq(addCall.ins, LAMBDA input : input \notin addCall.failing)
    /\ \A ts \in DOMAIN tickTasks : Range(tickTasks[ts].inputs) \subseteq Range(inputs)
    /\ \A m \in queued :
          (m.id[1] = "runInputs" /\ ~m.noop) => Range(m.fields) \subseteq Range(inputs)

\* one call with two inputs, the first reporting an error, and a tick that
\* invoked the second
C25_Witness ==
    /\ Len(addCall.ins) = 2
    /\ addCall.failing = {addCall.ins[1]}
    /\ \E m \in queued : m.id[1] = "runInputs" /\ m.fields = <<addCall.ins[2]>>

\* C26: at a tick an input that reports an error leaves no message and no
\* sample for that tick, and the task goes on: every input of the tick is
\* invoked, and each that reports no error has its message enqueued.
C26_TickGoesOnAfterError ==
    \A ts \in DOMAIN invoked :
        /\ \A k \in invoked[ts].failed :
              /\ \A m \in queued : m.id # <<"runInputs", ts, k>>
              /\ \A n \in DOMAIN timeseries : \A j \in 1..Len(timeseries[n]) :
                    timeseries[n][j].id # <<"runInputs", ts, k>>
        /\ \A k \in invoked[ts].called \ invoked[ts].failed :
              \E m \in queued : m.id = <<"runInputs", ts, k>>
        /\ invoked[ts].called =
              IF ts \in DOMAIN tickTasks THEN 1..tickTasks[ts].i ELSE 1..invoked[ts].n

\* a tick of two inputs: the first reported an error, the sample of the second
\* is in its series
C26_Witness ==
    \E ts \in DOMAIN invoked :
        /\ invoked[ts].n = 2
        /\ invoked[ts].failed = {1}
        /\ \E n \in DOMAIN timeseries : \E j \in 1..Len(timeseries[n]) :
              timeseries[n][j].id = <<"runInputs", ts, 2>>

\* the series of every field of the routing table
tableSeries == {<<n, i>> : n \in DOMAIN table, i \in 1..Len(series)}

\* C27: when a field is first received, every resolution whose Load failed or
\* returned nothing starts empty, so that it holds the received value and
\* nothing else, and every resolution holds the received value last; a pass
\* of syncStorage calls Store once for every series of every field, whichever
\* of the calls failed.
C27_StorageErrorsSkipped ==
    /\ (sop.name = "receive" /\ sop.created) =>
          /\ Len(loads) = Len(series)
          /\ \A i \in 1..Len(loads) :
                /\ loads[i].outcome \in {"error", "absent"} =>
                      table[sop.field][i].data = <<"value">>
                /\ table[sop.field][i].data # <<>>
                /\ table[sop.field][i].data[Len(table[sop.field][i].data)] = "value"
    /\ sop.name = "sync" =>
          /\ Len(stores) = Cardinality(tableSeries)
          /\ {<<stores[k].field, stores[k].i>> : k \in 1..Len(stores)} = tableSeries

\* C27 witness: a pass whose first Store failed went on to a second Store,
\* which succeeded and left its data in Storage
C27_Witness ==
    /\ sop.name = "sync"
    /\ Len(stores) >= 2
    /\ stores[1].err
    /\ ~stores[2].err
    /\ <<stores[2].field, stores[2].name>> \in DOMAIN stored
    /\ stored[<<stores[2].field, stores[2].name>>] = stores[2].data

\* C27 witness of the Load half: a field first received while one Load failed
\* and another returned stored data
C27_WitnessLoad ==
    /\ sop.name = "receive"
    /\ sop.created
    /\ \E i, j \in 1..Len(loads) :
          /\ loads[i].outcome = "error"
          /\ loads[j].outcome = "data"
          /\ Len(table[sop.field][j].data) >= 2

\* C28: two different configured resolutions of one field are never stored
\* under the same key, nor restored from the same key.
C28_ResolutionsHaveOwnKeys ==
    /\ \A k1, k2 \in 1..Len(stores) :
          (stores[k1].field = stores[k2].field /\ stores[k1].i # stores[k2].i) =>
              stores[k1].name # stores[k2].name
    /\ \A k1, k2 \in 1..Len(loads) :
          (loads[k1].field = loads[k2].field /\ loads[k1].i # loads[k2].i) =>
              loads[k1].name # loads[k2].name

\* the series of a routing-table entry are those configured, in that order
asConfigured(multi) ==
    /\ Len(multi) = Len(series)
    /\ \A i \in 1..Len(multi) :
          /\ multi[i].Series = series[i].Name
          /\ multi[i].interval = series[i].Period
          /\ multi[i].maxCount = series[i].MaxCount

\* the same TimeSeries, which may have been given more values
sameSeries(before, after) ==
    /\ Len(after) = Len(before)
    /\ \A i \in 1..Len(before) :
          /\ after[i].Series = before[i].Series
          /\ after[i].interval = before[i].interval
          /\ after[i].maxCount = before[i].maxCount
          /\ Len(after[i].data) >= Len(before[i].data)
          /\ SubSeq(after[i].data, 1, Len(before[i].data)) = before[i].data

\* C29: in the life of one collector, a routing-table entry appears in the
\* receive of a field that had none and only then, every such receive makes
\* one, an entry is never removed and its series are never replaced, and
\* every entry holds one TimeSeries per configured resolution, in the order
\* the resolutions were configured.
C29_EntriesMadeOnceAndKept ==
    [][sop'.name # "NewCollector" =>
          /\ \A n \in DOMAIN table :
                /\ n \in DOMAIN table'
                /\ sameSeries(table[n], table'[n])
          /\ \A n \in (DOMAIN table') \ (DOMAIN table) :
                /\ sop'.name = "receive"
                /\ sop'.field = n
                /\ sop'.created
          /\ (sop'.name = "receive" /\ sop'.field # "") =>
                sop'.field \in DOMAIN table'
          /\ \A n \in DOMAIN table' : asConfigured(table'[n])]_vars

\* C29 witness: both fields have their entry of two series, one field was
\* received twice and the other once after that
C29_Witness ==
    /\ DOMAIN table = Range(FieldOrder)
    /\ Len(series) = 2
    /\ sop.name = "receive"
    /\ sop.created
    /\ \E n \in DOMAIN table :
          /\ n # sop.field
          /\ Len(table[n][1].data) = 2
          /\ Len(table[n][2].data) = 2

\* C30: with Start() called more than once, wherever Stop() is past its wait
\* every loop that was started has returned, and of two messages that one
\* caller has put on the queue the second is applied to the series only after
\* the first.
C30_StartTwiceStopOnce ==
    /\ stopPc \in {"closeRecv", "sync", "done"} =>
          /\ ownerPc = "done"
          /\ \A o \in 1..Len(loops) : loops[o].pc = "done"
    /\ \A m1 \in queued : \A m2 \in queued :
          (sameCallerBefore(m1, m2) /\ occurrences(ingestLog, m2.id) = 1) =>
              /\ occurrences(ingestLog, m1.id) = 1
              /\ position(ingestLog, m1.id) < position(ingestLog, m2.id)

\* with Start() called more than once, Stop() past its wait finds every loop
\* returned
StopEndsEveryLoop ==
    stopPc \in {"closeRecv", "sync", "done"} =>
        /\ ownerPc = "done"
        /\ \A o \in 1..Len(loops) : loops[o].pc = "done"

\* Stop() has returned in a collector started twice
StoppedAfterTwoStarts == stopPc = "done" /\ loops # <<>>

\* the tasks that are invoking an input
invoking == {task \in running : at(task).kind = "invoke"}

\* C31: the owner loop waits on its event sources only: while an input is
\* being invoked, the owner, with a message taken off the queue, is not kept
\* from ingesting it by the task that invokes the input.
C31_OwnerNotBlockedByInput ==
    ("owner" \in running /\ at("owner").kind = "Lock") => mu \notin invoking

\* the tasks that are reading or writing the Collector's shared state
accessing == {task \in running : at(task).kind \in {"read", "write"}}

\* C40: a task that reads or writes the routing table, the input list or the
\* output list holds the Collector lock while it does, so no two tasks are at
\* the same one of them at a time.
C40_SharedStateUnderLock ==
    /\ \A task \in accessing : mu = task
    /\ \A t1 \in accessing : \A t2 \in accessing :
          (t1 # t2 /\ at(t1).obj = at(t2).obj) =>
              (at(t1).kind = "read" /\ at(t2).kind = "read")

\* C37: no task sends on the inbound queue once Stop() has closed it: neither
\* a tick task that began before Stop nor a caller of Send.
C37_NoSendOnClosedQueue == panics = {}

\* a tick task that began before Stop() sent on the closed queue
TickTaskSentOnClosedQueue == "runInputs" \in panics

\* C32: the owner loop leaves its select only when Stop() has closed closeCh,
\* and once closeCh is closed the loop returns and Stop() returns.
C32_LoopEndsWithStop ==
    /\ [](ownerPc \in {"drain", "done"} => closeCh)
    /\ closeCh ~> (ownerPc = "done" /\ stopPc = "done")

\* the owner loop leaves its select only when closeCh is closed, and then
\* returns
LoopReturnsOnStop ==
    /\ [](ownerPc \in {"drain", "done"} => closeCh)
    /\ closeCh ~> ownerPc = "done"

\* the gap between the bin at i and the next
gapAt(bs, i) == FracSub(bs[i + 1].value, bs[i].value)

\* the first of the adjacent pairs whose gap no other pair's gap is below
smallestGapPair(bs) ==
    CHOOSE i \in 1..(Len(bs) - 1) :
        \A j \in 1..(Len(bs) - 1) :
            /\ ~FracLess(gapAt(bs, j), gapAt(bs, i))
            /\ j < i => FracLess(gapAt(bs, i), gapAt(bs, j))

\* b has the counts of l and r together and their count-weighted mean
isWeightedMerge(b, l, r) ==
    /\ b.count = l.count + r.count
    /\ b.value.n * (l.value.d * r.value.d * b.count)
           = b.value.d * (l.value.n * l.count * r.value.d + r.value.n * r.count * l.value.d)

\* C33: an Add that finds the histogram at its budget makes trim merge once:
\* of the bins with the new sample inserted, the first adjacent pair of the
\* smallest gap becomes one bin, with the sum of the counts and the
\* count-weighted mean of the values, and every other bin stays as it was.
C33_TrimMergesClosestPair ==
    [][(hop'.name = "Add" /\ total' = total + 1 /\ Len(bins) = maxBins') =>
          LET bs == insertBin(bins, FracOf(hop'.arg))
              i == smallestGapPair(bs)
          IN  /\ Len(bins') = Len(bs) - 1
              /\ \A k \in 1..(i - 1) : bins'[k] = bs[k]
              /\ \A k \in (i + 1)..Len(bins') : bins'[k] = bs[k + 1]
              /\ isWeightedMerge(bins'[i], bs[i], bs[i + 1])]_vars

\* C33 witness: a bin of three samples whose value is no whole number, next
\* to another bin: a bin of two was merged with a bin of one
C33_Witness ==
    /\ hop.name = "Add"
    /\ Len(bins) >= 2
    /\ \E k \in 1..Len(bins) : bins[k].count = 3 /\ bins[k].value.d = 3

\* the held timestamp of a point that a later bucket has superseded
isBoundary(t) == t % interval = 0

\* C34: with useRawTime unset, an AddTime that advances the series by roll
\* buckets, 0 < roll < maxCount, leaves the previously last point with its
\* time replaced by its rounded boundary, for roll = 1 and for larger rolls,
\* so that every point but the last holds a rounded timestamp.
C34_SupersededPointRounded ==
    (monotone /\ ~useRawTime /\ rolled) =>
        /\ data[Len(data) - advanced].Time = roundTime(preLast.Time)
        /\ \A i \in 1..(Len(data) - 1) : isBoundary(data[i].Time)

\* the same for an advance of one bucket only
SupersededByNextBucketRounded ==
    (monotone /\ ~useRawTime /\ rolled /\ advanced = 1) =>
        data[Len(data) - 1].Time = roundTime(preLast.Time)

RECURSIVE sumOf(_)
sumOf(vs) == IF vs = <<>> THEN 0 ELSE vs[1] + sumOf(Tail(vs))

\* C35: after AddTime calls in order of time, the last point of a series that
\* aggregates by LAST holds the value of the latest sample of the current
\* bucket; of a series that aggregates by SUM, the sum of the samples of the
\* current bucket as its value and their number as its count.
C35_LastPointAggregatesBucket ==
    called =>
        LET last == data[Len(data)]
        IN  /\ aggregator = "LAST" => last.Value = inBucket[Len(inBucket)]
            /\ aggregator = "SUM" =>
                   last.Value = sumOf(inBucket) /\ last.Count = Len(inBucket)

\* C35 witness: the series went on to a later bucket and took three samples
\* there, which add up to two
C35_Witness ==
    /\ called /\ aggregator = "SUM"
    /\ Len(data) >= 2 /\ Len(inBucket) = 3
    /\ data[Len(data)].Value = 2

\* the same for LAST: the latest of three samples is not the one before it
LastOfBucketKept ==
    /\ called /\ aggregator = "LAST"
    /\ Len(data) >= 2 /\ Len(inBucket) = 3
    /\ inBucket[2] # inBucket[3] /\ data[Len(data)].Value = inBucket[3]

\* what the marks since construction or Reset amount to
marked == Range(marks)
smallest == CHOOSE v \in marked : \A w \in marked : v <= w
largest == CHOOSE v \in marked : \A w \in marked : w <= v

\* C36: after one or more Mark calls since construction or the last Reset,
\* Snapshot reports the last value marked, the number of calls, the sum of the
\* values, the smallest and the largest of them, whatever the values are,
\* negative ones included.
C36_SnapshotSummarisesMarks ==
    marks # <<>> =>
        /\ MeterSnapshot.Value = marks[Len(marks)]
        /\ MeterSnapshot.Count = Len(marks)
        /\ MeterSnapshot.Sum = sumOf(marks)
        /\ MeterSnapshot.Min = smallest
        /\ MeterSnapshot.Max = largest

\* all of it but Max holds for every choice of values
SnapshotSummarisesButMax ==
    marks # <<>> =>
        /\ MeterSnapshot.Value = marks[Len(marks)]
        /\ MeterSnapshot.Count = Len(marks)
        /\ MeterSnapshot.Sum = sumOf(marks)
        /\ MeterSnapshot.Min = smallest

\* and Max when some value marked is not negative
MaxOfMarksNotAllNegative ==
    (marks # <<>> /\ \E v \in marked : v >= 0) => MeterSnapshot.Max = largest

\* the last query found the series without points
queriedEmpty == held.name # "none" /\ held.pre = <<>>
noPoints == [times |-> <<>>, values |-> <<>>]

\* C38: every query of a series without points (Last, LastN, After, Values,
\* Snapshot, String) returns without failing, with an empty result: no times
\* and no values, and the zero time and the zero value from Last.
C38_EmptySeriesQueriesReturnEmpty ==
    queriedEmpty =>
        /\ ~held.panic
        /\ held.name = "Last" => held.ret = [time |-> 0, value |-> 0]
        /\ held.name \in {"LastN", "After", "Values"} => held.ret = noPoints
        /\ held.name = "Snapshot" =>
               held.ret.Times = <<>> /\ held.ret.Values = <<>>
        /\ held.name = "String" => held.ret = <<>>

\* the same of every query but Values
EmptySeriesQueriesButValues ==
    (queriedEmpty /\ held.name # "Values") => C38_EmptySeriesQueriesReturnEmpty

\* Add has returned; the time of the point each series holds for the call
added == mcall.phase = "added"
timeHeld(i) == mts[i].data[Len(mts[i].data)].Time

\* C39: one MultiTimeSeries.Add(v) records v in every series of the
\* MultiTimeSeries at one and the same timestamp, also when the time source
\* moves on from one reading to the next.
C39_AddStampsEverySeriesAlike ==
    added => \A i, j \in 1..Len(mts) : timeHeld(i) = timeHeld(j)

\* each series holds the point at the time it read itself
AddStampsAtOwnReading ==
    added => \A i \in 1..Len(mts) : timeHeld(i) = readings[i]

\* with a time source that stands still during the call the times agree
AddStampsAlikeOnSteadyClock ==
    (added /\ clock = readings[1]) =>
        \A i, j \in 1..Len(mts) : timeHeld(i) = timeHeld(j)

=============================================================================
